---- MODULE Spec2Model ----
(***************************************************************************)
(* A model of git-analyzer's GitHub client (src/github/handler.py,         *)
(* src/github/utils.py) and of its local repository inspector              *)
(* (src/github/gui.py, class GitRepo).                                     *)
(*                                                                         *)
(* Text is modelled as sequences of one-character strings, so that the     *)
(* Link header parser works on the characters it is given.                 *)
(***************************************************************************)
EXTENDS Integers, Sequences, FiniteSets, TLC

VARIABLES
    \* ---- _parse_link_header on its own (SpecParse) ----
    link_desc,      \* what the server meant to say: the links the header is rendered from
    link_header,    \* the Link header value handed to the parser: characters, or None
    page_info,      \* the parser's outcome, "unset" before it ran
    \* ---- GithubCommit.get_repo_commits (Spec) ----
    remote,         \* the repository on the server: its commit entries, newest first
    server_link,    \* the links of the Link header its commit pages come with
    commit_list,    \* self.commit_list: None or the accumulated records
    next_pages,     \* self.next_pages: None, or [] once a page 1 was read
    reused,         \* get_repo_commits was called on this GithubCommit before this call
    fetch_args,     \* the page and per_page arguments of the call in progress
    fetch_pc,       \* "idle", "call" (first request due) or "loop" (inside _get_next_pages)
    stack,          \* the running for-loops of _get_next_pages, innermost last
    http_log,       \* the requests of the call in progress and what answered them
    parses,         \* how many times the call in progress ran _parse_link_header
    result,         \* how the latest call ended
    \* ---- GithubProfile and GithubRepo (SpecClient) ----
    owner,          \* GithubProfile.owner: None until _set_owner_name set it
    avatar,         \* GithubProfile.avatar
    client_call,    \* the latest call of the client: its arguments, the request and the outcome
    \* ---- the local repository and gui.GitRepo (SpecLocal) ----
    head,           \* the tree of the HEAD commit: path -> blob
    index,          \* the index: path -> entry
    worktree,       \* the working tree: path -> blob
    staged_diffs,   \* GitRepo.staged_diffs
    unchanged_since, \* the latest get_status result, while the repository is as that call found it
    captured,       \* the index that the latest get_status that returned read its staged diffs from
    local_call,     \* the latest call of GitRepo and how it ended
    \* ---- the local-repository page of GitAnalyzerGUI (SpecGui) ----
    current_project_path,     \* self.current_project_path: None or the folder chosen
    refresh_local_btn,        \* the refresh button is enabled
    generate_from_staged_btn, \* the generate button is enabled
    staged_files_list,        \* the items of the staged list widget
    unstaged_files_list,      \* the items of the unstaged list widget
    pool,                     \* the workers handed to the thread pool that have not finished, listed by task
    events,                   \* the signals of workers queued for the GUI thread, oldest first
    close_state,              \* "open", "waiting" (closeEvent inside waitForDone) or "accepted"
    staged_since_status,      \* a stage or unstage call returned after the latest get_status that returned
    latest_build,             \* what the latest combine_all_blobs of a worker ran on
    waited_for,               \* how many workers had not finished when closeEvent began
    \* ---- ai_analyzer (SpecAi) ----
    ai_call,                  \* the latest call of a request builder: its inputs, the prompt, the answer, the outcome
    \* ---- Worker.run on the threads of the pool (SpecWorker) ----
    runs,                     \* per pool thread: the Worker it runs, how far run() is, the signals emitted
    \* ---- the GitHub page of GitAnalyzerGUI (SpecCommits) ----
    gui_token,                \* self.token: None while not connected
    repo_combo,               \* the repository box: its items and the current index
    commit_list_widget        \* the items of the commit list

\* Python's None where the other values are sequences: no text holds a
\* character of four letters
None == <<"None">>
\* no exception
NoExc == "-"

(***************************************************************************)
(* Bounds of the model.                                                    *)
(***************************************************************************)
\* the largest page number a Link header names
MaxPageNo == 3

(***************************************************************************)
(* Characters and words.                                                   *)
(***************************************************************************)
Digits == <<"0", "1", "2", "3", "4", "5", "6", "7", "8", "9">>

W_rel == <<"r", "e", "l", "=", "\"">>
W_next == <<"n", "e", "x", "t">>
W_last == <<"l", "a", "s", "t">>
W_prev == <<"p", "r", "e", "v">>
W_first == <<"f", "i", "r", "s", "t">>
W_page == <<"p", "a", "g", "e">>
W_per_page == <<"p", "e", "r", "_", "p", "a", "g", "e">>
W_base == <<"h", ":", "/", "/", "g", "/", "c">>

IsSpace(c) == c \in {" ", "\t", "\n"}

DigitValue(c) == CHOOSE d \in 0..9 : Digits[d + 1] = c

IsDigit(c) == \E d \in 0..9 : Digits[d + 1] = c

\* the first position j >= i of s that holds the character stop, Len(s) + 1 if none
RECURSIVE IndexOf(_, _, _)
IndexOf(s, i, stop) ==
    IF i > Len(s) THEN Len(s) + 1
    ELSE IF s[i] = stop THEN i
    ELSE IndexOf(s, i + 1, stop)

\* the first position j >= i of s that holds no white space, Len(s) + 1 if none
RECURSIVE SkipSpaces(_, _)
SkipSpaces(s, i) ==
    IF i > Len(s) THEN Len(s) + 1
    ELSE IF IsSpace(s[i]) THEN SkipSpaces(s, i + 1)
    ELSE i

HasPrefixAt(s, i, w) ==
    /\ i + Len(w) - 1 <= Len(s)
    /\ SubSeq(s, i, i + Len(w) - 1) = w

Contains(s, c) == \E i \in 1..Len(s) : s[i] = c

(***************************************************************************)
(* re.findall(r'<([^>]+)>;\s*rel="([^"]+)"', link_header)                  *)
(***************************************************************************)
\* One attempt of the pattern at position i. Both character classes are
\* negated single characters followed by that character, so the greedy match
\* is the only one.
MatchAt(s, i) ==
    LET j == IndexOf(s, i + 1, ">")          \* the > closing the URL
        k == SkipSpaces(s, j + 2)            \* after ";" and \s*
        m == k + Len(W_rel)                  \* first character of the relation
        n == IndexOf(s, m, "\"")             \* the closing quote
        ok == /\ i <= Len(s) /\ s[i] = "<"
              /\ j > i + 1 /\ j <= Len(s)
              /\ j + 1 <= Len(s) /\ s[j + 1] = ";"
              /\ HasPrefixAt(s, k, W_rel)
              /\ n > m /\ n <= Len(s)
    IN  IF ok
        THEN [ok |-> TRUE, url |-> SubSeq(s, i + 1, j - 1),
              rel |-> SubSeq(s, m, n - 1), end |-> n]
        ELSE [ok |-> FALSE, url |-> <<>>, rel |-> <<>>, end |-> i]

\* the non-overlapping matches, left to right, as (url, rel) pairs
RECURSIVE FindAll(_, _)
FindAll(s, i) ==
    IF i > Len(s) THEN <<>>
    ELSE LET mt == MatchAt(s, i)
         IN  IF mt.ok
             THEN <<[url |-> mt.url, rel |-> mt.rel]>> \o FindAll(s, mt.end + 1)
             ELSE FindAll(s, i + 1)

\* rel_links.get(rel): the dict comprehension keeps the last URL of a relation
RelLinksGet(matches, rel) ==
    LET hits == {i \in 1..Len(matches) : matches[i].rel = rel}
    IN  IF hits = {} THEN None
        ELSE matches[CHOOSE i \in hits : \A h \in hits : h <= i].url

(***************************************************************************)
(* get_page_number: urlparse(url).query, parse_qsl, int(params["page"])    *)
(***************************************************************************)
\* a query that runs to the end of the URL, fragment included
UrlQuery_WithFragment(url) == SubSeq(url, IndexOf(url, 1, "?") + 1, Len(url))

\* urlparse splits the fragment off at the first #, then the query at the first ?
UrlQuery(url) ==
    LET h == IndexOf(url, 1, "#")
        u == SubSeq(url, 1, h - 1)
        q == IndexOf(u, 1, "?")
    IN  SubSeq(u, q + 1, Len(u))

\* str.split(sep) of a character sequence
RECURSIVE Split(_, _)
Split(s, sep) ==
    LET i == IndexOf(s, 1, sep)
    IN  IF i > Len(s) THEN <<s>>
        ELSE <<SubSeq(s, 1, i - 1)>> \o Split(SubSeq(s, i + 1, Len(s)), sep)

\* urllib.parse.unquote after replace('+', ' '): %3d is the digit d, %20 a
\* space; the headers of this model carry no other escape
RECURSIVE Unquote(_)
Unquote(s) ==
    IF s = <<>> THEN <<>>
    ELSE IF s[1] = "+" THEN <<" ">> \o Unquote(Tail(s))
    ELSE IF Len(s) >= 3 /\ s[1] = "%" /\ s[2] = "3" /\ IsDigit(s[3])
         THEN <<s[3]>> \o Unquote(SubSeq(s, 4, Len(s)))
    ELSE IF Len(s) >= 3 /\ s[1] = "%" /\ s[2] = "2" /\ s[3] = "0"
         THEN <<" ">> \o Unquote(SubSeq(s, 4, Len(s)))
    ELSE <<s[1]>> \o Unquote(Tail(s))

\* parse_qsl(query): the fields between &, without those that are empty, have
\* no = or have an empty value (keep_blank_values is off)
RECURSIVE QslPairs(_)
QslPairs(fields) ==
    IF fields = <<>> THEN <<>>
    ELSE LET f == Head(fields)
             e == IndexOf(f, 1, "=")
             rest == QslPairs(Tail(fields))
         IN  IF f = <<>> \/ e > Len(f) \/ e = Len(f) THEN rest
             ELSE <<[name |-> Unquote(SubSeq(f, 1, e - 1)),
                     value |-> Unquote(SubSeq(f, e + 1, Len(f)))]>> \o rest

parse_qsl(query) == QslPairs(Split(query, "&"))

\* str.strip() of white space
RECURSIVE RStrip(_)
RStrip(s) ==
    IF s = <<>> THEN <<>>
    ELSE IF IsSpace(s[Len(s)]) THEN RStrip(SubSeq(s, 1, Len(s) - 1))
    ELSE s

Strip(s) == LET r == RStrip(s) IN SubSeq(r, SkipSpaces(r, 1), Len(r))

\* digits with single underscores between them, as int() reads them
RECURSIVE DigitsValue(_, _)
DigitsValue(s, acc) ==
    IF s = <<>> THEN [ok |-> TRUE, val |-> acc]
    ELSE IF IsDigit(s[1]) THEN DigitsValue(Tail(s), 10 * acc + DigitValue(s[1]))
    ELSE IF s[1] = "_" /\ Len(s) >= 2 /\ IsDigit(s[2]) THEN DigitsValue(Tail(s), acc)
    ELSE [ok |-> FALSE, val |-> 0]

\* int(text): white space around, a sign, digits; anything else is a ValueError
PyInt(text) ==
    LET t == Strip(text)
        signed == t # <<>> /\ t[1] \in {"-", "+"}
        body == IF signed THEN Tail(t) ELSE t
        d == IF body # <<>> /\ IsDigit(body[1]) THEN DigitsValue(body, 0)
             ELSE [ok |-> FALSE, val |-> 0]
    IN  IF ~d.ok THEN [ok |-> FALSE, val |-> 0]
        ELSE [ok |-> TRUE, val |-> IF signed /\ t[1] = "-" THEN 0 - d.val ELSE d.val]

\* dict(parse_qsl(query))["page"]: the last pair of that name
get_page_number(url) ==
    LET pairs == parse_qsl(UrlQuery(url))
        hits == {i \in 1..Len(pairs) : pairs[i].name = W_page}
        value == pairs[CHOOSE i \in hits : \A h \in hits : h <= i].value
    IN  IF hits = {} THEN [exc |-> "KeyError", val |-> 0]
        ELSE IF ~PyInt(value).ok THEN [exc |-> "ValueError", val |-> 0]
        ELSE [exc |-> NoExc, val |-> PyInt(value).val]

(***************************************************************************)
(* GithubCommit._parse_link_header                                         *)
(***************************************************************************)
Absent == [kind |-> "none"]
PageRange(n, l) == [kind |-> "range", next_page |-> n, last_page |-> l]
Raised(e) == [kind |-> "raise", exc |-> e]

\* an except clause that names KeyError alone
CaughtByParser_KeyErrorOnly == {"KeyError"}

\* the exceptions the except clause of _parse_link_header absorbs
CaughtByParser == {"KeyError", "ValueError"}

ParseLinkHeader(header) ==
    IF header = None \/ header = <<>> THEN Absent
    ELSE LET rel_links == FindAll(header, 1)
             next_url == RelLinksGet(rel_links, W_next)
             last_url == RelLinksGet(rel_links, W_last)
         IN  IF next_url = None \/ next_url = <<>> \/ last_url = None \/ last_url = <<>>
             THEN Absent
             ELSE LET n == get_page_number(next_url)
                      l == get_page_number(last_url)
                  IN  IF n.exc # NoExc
                      THEN (IF n.exc \in CaughtByParser THEN Absent ELSE Raised(n.exc))
                      ELSE IF l.exc # NoExc
                      THEN (IF l.exc \in CaughtByParser THEN Absent ELSE Raised(l.exc))
                      ELSE PageRange(n.val, l.val)

(***************************************************************************)
(* The server's side of a Link header: the links it means, and the text    *)
(* it sends for them, <URL>; rel="REL" joined by ", ".                     *)
(***************************************************************************)
RECURSIVE NatToChars(_)
NatToChars(n) ==
    IF n < 10 THEN <<Digits[n + 1]>>
    ELSE NatToChars(n \div 10) \o <<Digits[(n % 10) + 1]>>

IntToChars(n) == IF n < 0 THEN <<"-">> \o NatToChars(0 - n) ELSE NatToChars(n)

\* a digit as the percent escape of its character
RECURSIVE Escaped(_)
Escaped(s) ==
    IF s = <<>> THEN <<>>
    ELSE (IF IsDigit(s[1]) THEN <<"%", "3", s[1]>> ELSE <<s[1]>>) \o Escaped(Tail(s))

IntValue(n) == [kind |-> "int", n |-> n, enc |-> FALSE]
EscapedIntValue(n) == [kind |-> "int", n |-> n, enc |-> TRUE]
TextValue(t) == [kind |-> "text", text |-> t]

RenderValue(v) ==
    IF v.kind = "int"
    THEN (IF v.enc THEN Escaped(IntToChars(v.n)) ELSE IntToChars(v.n))
    ELSE v.text

RECURSIVE RenderParams(_)
RenderParams(ps) ==
    IF ps = <<>> THEN <<>>
    ELSE Head(ps).name \o <<"=">> \o RenderValue(Head(ps).value)
         \o (IF Len(ps) > 1 THEN <<"&">> ELSE <<>>) \o RenderParams(Tail(ps))

RenderUrl(u) ==
    W_base
    \o (IF u.frag = "before" THEN <<"#", "f">> ELSE <<>>)
    \o (IF u.params # <<>> THEN <<"?">> \o RenderParams(u.params) ELSE <<>>)
    \o (IF u.frag = "after" THEN <<"#", "f">> ELSE <<>>)

RenderLink(l) == <<"<">> \o RenderUrl(l.url) \o <<">", ";", " ">> \o W_rel \o l.rel \o <<"\"">>

RECURSIVE RenderLinks(_)
RenderLinks(ls) ==
    IF ls = <<>> THEN <<>>
    ELSE RenderLink(Head(ls)) \o (IF Len(ls) > 1 THEN <<",", " ">> ELSE <<>>)
         \o RenderLinks(Tail(ls))

RenderHeader(d) == IF d.present THEN RenderLinks(d.links) ELSE None

\* the page parameters of a URL that are part of its query
PageParams(u) ==
    IF u.frag = "before" THEN {}
    ELSE {i \in 1..Len(u.params) : u.params[i].name = W_page}

\* the URL carries the integer n as its one page query parameter
CarriesPage(u, n) ==
    /\ Cardinality(PageParams(u)) = 1
    /\ \A i \in PageParams(u) : u.params[i].value.kind = "int" /\ u.params[i].value.n = n

CarriesIntegerPage(u) == \E n \in (0 - 1)..(MaxPageNo + 1) : CarriesPage(u, n)

PageOf(u) == CHOOSE n \in (0 - 1)..(MaxPageNo + 1) : CarriesPage(u, n)

\* the URL has no page query parameter
PageMissing(u) == PageParams(u) = {}

\* the URL's page query parameter is no number
PageNonNumeric(u) ==
    /\ PageParams(u) # {}
    /\ \A i \in PageParams(u) : u.params[i].value.kind = "text"

\* the links of a relation
LinksOf(d, rel) == {i \in 1..Len(d.links) : d.links[i].rel = rel}

(***************************************************************************)
(* The headers the model draws from.                                       *)
(***************************************************************************)
PageNos == (0 - 1)..MaxPageNo

\* page values that are no integer
JunkTexts == {<<>>, <<"x">>, <<"2", "x">>, <<"2", ".", "5">>, <<"-">>}

PagePair(v) == [name |-> W_page, value |-> v]
PerPagePair == [name |-> W_per_page, value |-> IntValue(2)]

PlainPageValues == {IntValue(n) : n \in PageNos} \cup {TextValue(t) : t \in JunkTexts}

ParamLists ==
    {<<>>, <<PerPagePair>>}
    \cup {<<PagePair(v)>> : v \in PlainPageValues}
    \cup {<<PerPagePair, PagePair(v)>> : v \in PlainPageValues}
    \cup {<<PagePair(v), PerPagePair>> : v \in PlainPageValues}
    \cup {<<PagePair(EscapedIntValue(n))>> : n \in PageNos}

Url(ps, f) == [params |-> ps, frag |-> f]
PageUrl(n) == Url(<<PerPagePair, PagePair(IntValue(n))>>, "none")

Urls ==
    {Url(ps, "none") : ps \in ParamLists}
    \cup {Url(<<PagePair(IntValue(2))>>, f) : f \in {"after", "before"}}

Link(rel, u) == [rel |-> rel, url |-> u]
Header(ls) == [present |-> TRUE, links |-> ls]
NoHeader == [present |-> FALSE, links |-> <<>>]

LinkDescs ==
    {NoHeader, Header(<<>>)}
    \cup {Header(<<Link(r, u)>>) : r \in {W_next, W_last, W_prev}, u \in Urls}
    \cup {Header(<<Link(W_next, a), Link(W_last, b)>>) : a \in Urls, b \in Urls}
    \cup {Header(<<Link(W_last, PageUrl(b)), Link(W_next, PageUrl(a))>>) :
              a \in PageNos, b \in PageNos}
    \cup {Header(<<Link(W_prev, PageUrl(1)), Link(W_next, PageUrl(a)),
                   Link(W_last, PageUrl(b)), Link(W_first, PageUrl(1))>>) :
              a \in PageNos, b \in PageNos}
    \cup {Header(<<Link(W_next, PageUrl(a)), Link(W_next, PageUrl(b)),
                   Link(W_last, PageUrl(b))>>) : a \in PageNos, b \in PageNos}

(***************************************************************************)
(* The commits endpoint, as the fetch sees it.                             *)
(***************************************************************************)
\* the most commits a repository holds
MaxCommits == 3
\* the largest per_page a caller passes
MaxPerPage == 2
\* the most records a GithubCommit holds when get_repo_commits is called on it again
MaxCarried == 1
\* the most for-loops of _get_next_pages nested before Python's recursion limit
MaxDepth == 2
\* the most requests of one call that the model follows
MaxRequests == 5

\* GithubCommit.page and GithubCommit.per_page
DefaultPage == 1
DefaultPerPage == 10

\* an entry of the commits array: with a commit sub-object ("commit"), without
\* one ("bare"), or with a commit sub-object whose author is null ("noauthor")
EntryKinds == {"commit", "bare", "noauthor"}

Entry(kind, i) ==
    [commit |-> kind # "bare", author |-> kind = "commit",
     date |-> <<"d">> \o NatToChars(i), message |-> <<"m">> \o NatToChars(i)]

\* repositories of well-formed commits, but for one entry at most
Shapes ==
    {[i \in 1..n |-> IF i = j THEN kind ELSE "commit"] :
        n \in 0..MaxCommits, j \in 1..MaxCommits, kind \in EntryKinds}

Remotes == {[i \in DOMAIN sh |-> Entry(sh[i], i)] : sh \in Shapes}

Min(a, b) == IF a < b THEN a ELSE b

\* the array the server sends for ?page=p&per_page=k; a page below 1 reads as page 1
PageEntries(repo, p, k) ==
    LET q == IF p < 1 THEN 1 ELSE p
    IN  SubSeq(repo, (q - 1) * k + 1, Min(q * k, Len(repo)))

\* f"{commit_date}/{commit_message}"
CommitRecord(entry) == entry.date \o <<"/">> \o entry.message

\* the for-loop over data: a record per entry with a commit sub-object; an
\* entry whose author is None stops the loop with an AttributeError
RECURSIVE AppendEntries(_, _)
AppendEntries(list, data) ==
    IF data = <<>> THEN [list |-> list, exc |-> NoExc]
    ELSE LET commit == Head(data)
         IN  IF ~commit.commit THEN AppendEntries(list, Tail(data))
             ELSE IF ~commit.author THEN [list |-> list, exc |-> "AttributeError"]
             ELSE AppendEntries(Append(list, CommitRecord(commit)), Tail(data))

\* an optional integer argument: left out (None) or given
Omitted == [given |-> FALSE, v |-> 0]
Given(k) == [given |-> TRUE, v |-> k]

\* page if page is not None else self.page
PageNumber(args) == IF ~args.page.given THEN DefaultPage ELSE args.page.v

\* per_page if per_page is not None else self.per_page
PerPageNumber(args) == IF ~args.per_page.given THEN DefaultPerPage ELSE args.per_page.v

\* range(next_page, last_page): the last page is left out
PageLoop_LastExcluded(next_page, last_page) == [page |-> next_page, last |-> last_page - 1]

\* for page in range(next_page, last_page + 1)
PageLoop(next_page, last_page) == [page |-> next_page, last |-> last_page]

\* the per_page a page of the loop is asked with
LoopPerPage(per_page) == per_page

\* the loops that still have a page to fetch: a finished loop returns to the
\* call that ran it, which returns to the loop around it
RECURSIVE Unwind(_)
Unwind(st) ==
    IF st = <<>> THEN <<>>
    ELSE IF st[Len(st)].page > st[Len(st)].last THEN Unwind(SubSeq(st, 1, Len(st) - 1))
    ELSE st

\* what the server may answer: no answer at all (the transport fails), or a
\* status and a body; the Link header comes with every commit array
TransportError == [status |-> 0, body |-> "none"]
Response(status, body) == [status |-> status, body |-> body]

Responses ==
    {TransportError, Response(409, "sentinel"),
     Response(200, "sentinel"), Response(200, "nonjson"), Response(200, "array")}

\* the Link headers a repository's commit pages come with
NextNos == 0..MaxPageNo
LastNos == 2..MaxPageNo
UrlNoPage == Url(<<PerPagePair>>, "none")
UrlBadPage == Url(<<PerPagePair, PagePair(TextValue(<<"x">>))>>, "none")

FetchLinkDescs ==
    {NoHeader, Header(<<>>)}
    \cup {Header(<<Link(W_next, PageUrl(a)), Link(W_last, PageUrl(b))>>) :
              a \in NextNos, b \in LastNos}
    \cup {Header(<<Link(r, PageUrl(2))>>) : r \in {W_next, W_last}}
    \cup {Header(<<Link(W_next, PageUrl(2)), Link(W_last, b)>>) : b \in {UrlNoPage, UrlBadPage}}
    \cup {Header(<<Link(W_next, a), Link(W_last, PageUrl(2))>>) : a \in {UrlNoPage, UrlBadPage}}

\* the calls of the model: the first page with any per_page, or page 2
FetchArgs ==
    {[page |-> Omitted, per_page |-> pp] : pp \in {Omitted} \cup {Given(k) : k \in 1..MaxPerPage}}
    \cup {[page |-> Given(2), per_page |-> Omitted]}

Pending == [kind |-> "pending"]
NoCall == [kind |-> "nocall"]
Returned(v) == [kind |-> "returned", value |-> v]
RaisedBy(e) == [kind |-> "raised", exc |-> e]

(***************************************************************************)
(* GithubCommit.get_repo_commits, one HTTP request at a time.              *)
(***************************************************************************)
\* What _get_next_pages does with the range read from the Link header of
\* page 1: next_pages was emptied, and a range opens a loop over its pages.
AfterLink(info, st, list) ==
    LET st2 == IF info.kind = "range"
               THEN Append(st, PageLoop(info.next_page, info.last_page))
               ELSE st
    IN  IF info.kind = "raise"
        THEN [list |-> list, np |-> <<>>, stack |-> <<>>, parsed |-> 1,
              out |-> RaisedBy(info.exc)]
        ELSE IF Len(Unwind(st2)) > MaxDepth
        THEN [list |-> list, np |-> <<>>, stack |-> <<>>, parsed |-> 1,
              out |-> RaisedBy("RecursionError")]
        ELSE [list |-> list, np |-> <<>>, stack |-> Unwind(st2), parsed |-> 1,
              out |-> IF Unwind(st2) = <<>> THEN Returned(list) ELSE Pending]

OnTransportError_Swallowed(top, st, list, np) ==
    IF top THEN [list |-> list, np |-> np, stack |-> <<>>, parsed |-> 0,
                 out |-> Returned(None)]
    ELSE [list |-> list, np |-> np, stack |-> Unwind(st), parsed |-> 0,
          out |-> IF Unwind(st) = <<>> THEN Returned(list) ELSE Pending]

\* requests.get raises: the except clause logs and raises again, and no
\* caller up the stack, _get_next_pages included, catches it
OnTransportError(top, st, list, np) ==
    [list |-> list, np |-> np, stack |-> <<>>, parsed |-> 0,
     out |-> RaisedBy("ConnectionError")]

\* What one answered request does to the GithubCommit and to the call: the new
\* commit_list and next_pages, the loops left, and the call's outcome (Pending
\* while pages remain).
\* `top` says the request is the call's own, not one of a loop; `st` holds
\* the loops with the page of this request already taken.
AfterResponse(top, p, k, resp, link, st, list, np) ==
    LET keep(out) == [list |-> list, np |-> np, stack |-> <<>>, out |-> out, parsed |-> 0]
    IN
    IF resp = TransportError THEN OnTransportError(top, st, list, np)
    ELSE IF resp.status # 200
    THEN \* the call returns None: the caller's loop goes on
         (IF top THEN keep(Returned(None))
          ELSE [list |-> list, np |-> np, stack |-> Unwind(st), parsed |-> 0,
                out |-> IF Unwind(st) = <<>> THEN Returned(list) ELSE Pending])
    ELSE IF resp.body = "nonjson" THEN keep(RaisedBy("JSONDecodeError"))
    ELSE IF resp.body = "sentinel" THEN keep(RaisedBy("EmptyCommitHistory"))
    ELSE
    LET start == IF list = None THEN <<>> ELSE list
        done == AppendEntries(start, PageEntries(remote, p, k))
    IN  IF done.exc # NoExc
        THEN [list |-> done.list, np |-> np, stack |-> <<>>, parsed |-> 0,
              out |-> RaisedBy(done.exc)]
        ELSE IF p # 1
        THEN [list |-> done.list, np |-> np, stack |-> Unwind(st), parsed |-> 0,
              out |-> IF Unwind(st) = <<>> THEN Returned(done.list) ELSE Pending]
        ELSE
        AfterLink(ParseLinkHeader(link), st, done.list)

\* commit_handler.get_repo_commits(token, owner, repo, page, per_page) is called
GetRepoCommits ==
    /\ fetch_pc = "idle"
    /\ commit_list # None => Len(commit_list) <= MaxCarried
    /\ \E args \in FetchArgs : fetch_args' = args
    /\ fetch_pc' = "call"
    /\ reused' = (result # NoCall)
    /\ stack' = <<>>
    /\ http_log' = <<>>
    /\ parses' = 0
    /\ result' = Pending
    /\ UNCHANGED <<remote, server_link, commit_list, next_pages>>

\* requests.get of the page that is due, and everything up to the next request
FetchPage ==
    /\ fetch_pc \in {"call", "loop"}
    /\ Len(http_log) < MaxRequests
    /\ LET top == fetch_pc = "call"
           p == IF top THEN PageNumber(fetch_args) ELSE stack[Len(stack)].page
           k == IF top THEN PerPageNumber(fetch_args)
                ELSE LoopPerPage(PerPageNumber(fetch_args))
           st == IF top THEN <<>> ELSE [stack EXCEPT ![Len(stack)].page = @ + 1]
       IN  \E resp \in Responses :
             \E after \in {AfterResponse(top, p, k, resp, RenderHeader(server_link), st,
                                         commit_list, next_pages)} :
                 /\ commit_list' = after.list
                 /\ next_pages' = after.np
                 /\ stack' = after.stack
                 /\ result' = after.out
                 /\ parses' = parses + after.parsed
                 /\ fetch_pc' = IF after.out = Pending THEN "loop" ELSE "idle"
                 /\ http_log' = Append(http_log, [page |-> p, per_page |-> k, resp |-> resp])
    /\ UNCHANGED <<remote, server_link, reused, fetch_args>>

(***************************************************************************)
(* GithubProfile and GithubRepo: one authenticated GET per call.           *)
(***************************************************************************)
\* the largest per_page a caller of get_user_repositories passes
MaxRepoPerPage == 32

\* GithubRepo.per_page, and the most repositories of a single page
DefaultRepoPerPage == 30
RepoPerPageLimit == 30

Tokens == {<<"t", "1">>, <<"t", "2">>}
Logins == {<<"o", "c", "t", "o">>}
AvatarUrls == {<<"h", ":", "/", "/", "a">>}

\* a field of a JSON object: left out, null, or a text
FieldAbsent == <<"absent">>
FieldNull == <<"null">>

\* the body of the profile endpoint: no JSON, a JSON array, or an object
\* with or without the login and avatar_url fields
ProfileObject(login, avatar_url) == [json |-> "object", login |-> login, avatar_url |-> avatar_url]
NotJson == [json |-> "invalid"]
JsonArray(items) == [json |-> "array", items |-> items]
JsonNull == [json |-> "null"]

ProfileBodies ==
    {NotJson, JsonArray(<<>>)}
    \cup {ProfileObject(l, a) : l \in {FieldAbsent, FieldNull} \cup Logins,
                               a \in {FieldAbsent} \cup AvatarUrls}

ProfileStatuses == {200, 401, 403}

NoAnswer == [status |-> 0, body |-> NotJson]
Answer(status, body) == [status |-> status, body |-> body]

ProfileAnswers == {NoAnswer} \cup {Answer(st, b) : st \in ProfileStatuses, b \in ProfileBodies}

\* dict.get(key, None): None for a field that is left out or null
DictGet(field) == IF field \in {FieldAbsent, FieldNull} THEN None ELSE field

ClientCall(op, args, requests, resp, before, out) ==
    [op |-> op, args |-> args, requests |-> requests, resp |-> resp,
     before |-> before, out |-> out]

NoClientCall == ClientCall("none", <<>>, 0, NoAnswer, <<None, None>>, NoCall)

TestConnectionOutcome_ErrorSwallowed(resp) ==
    IF resp = NoAnswer THEN Returned(FALSE)
    ELSE IF resp.status = 200 THEN Returned(TRUE)
    ELSE Returned(FALSE)

\* how test_github_connection ends for an answer
TestConnectionOutcome(resp) ==
    IF resp = NoAnswer THEN RaisedBy("ConnectionError")
    ELSE IF resp.status = 200 THEN Returned(TRUE)
    ELSE Returned(FALSE)

\* GithubProfile.test_github_connection(token)
TestGithubConnection ==
    \E token \in Tokens, resp \in ProfileAnswers :
        /\ client_call' = ClientCall("test_github_connection", <<token>>, 1, resp,
                                     <<owner, avatar>>, TestConnectionOutcome(resp))
        /\ UNCHANGED <<owner, avatar>>

SetOwnerNameEffect_RecordsFirst(resp, old_owner, old_avatar) ==
    IF resp # NoAnswer /\ resp.status = 200 /\ resp.body.json = "object"
    THEN [owner |-> DictGet(resp.body.login), avatar |-> DictGet(resp.body.avatar_url),
          out |-> IF DictGet(resp.body.login) = None THEN RaisedBy("ValueError")
                  ELSE Returned(DictGet(resp.body.login))]
    ELSE [owner |-> old_owner, avatar |-> old_avatar, out |-> Returned(None)]

\* What _set_owner_name does for an answer: the owner and avatar attributes
\* after it, and how it ends. The except clause logs and raises again.
SetOwnerNameEffect(resp, old_owner, old_avatar) ==
    LET keep(out) == [owner |-> old_owner, avatar |-> old_avatar, out |-> out]
    IN  IF resp = NoAnswer THEN keep(RaisedBy("ConnectionError"))
        ELSE IF resp.status # 200 THEN keep(Returned(None))
        ELSE IF resp.body.json = "invalid" THEN keep(RaisedBy("JSONDecodeError"))
        ELSE IF resp.body.json # "object" THEN keep(RaisedBy("AttributeError"))
        ELSE LET owner_name == DictGet(resp.body.login)
                 avatar_url == DictGet(resp.body.avatar_url)
             IN  IF owner_name = None THEN keep(RaisedBy("ValueError"))
                 ELSE [owner |-> owner_name, avatar |-> avatar_url,
                       out |-> Returned(owner_name)]

\* GithubProfile._set_owner_name(token)
SetOwnerName ==
    \E token \in Tokens, resp \in ProfileAnswers :
        LET eff == SetOwnerNameEffect(resp, owner, avatar)
        IN  /\ owner' = eff.owner
            /\ avatar' = eff.avatar
            /\ client_call' = ClientCall("_set_owner_name", <<token>>, 1, resp,
                                         <<owner, avatar>>, eff.out)

\* the repositories endpoint: repository objects with a name and a clone_url
RepoNames == {<<"A", "p", "i">>, <<"w", "e", "b">>}
RepoObject(name) == [name |-> name, clone_url |-> <<"h", ":", "/", "/">> \o name]

\* the object an error answer carries: {"message": ...}
ErrorObject == [json |-> "object", message |-> <<"n", "o">>]

RepoBodies ==
    {NotJson, JsonNull, ErrorObject, JsonArray(<<>>),
     JsonArray(<<RepoObject(<<"A", "p", "i">>)>>),
     JsonArray(<<RepoObject(<<"A", "p", "i">>), RepoObject(<<"w", "e", "b">>)>>),
     JsonArray(<<[name |-> FieldAbsent, clone_url |-> FieldAbsent]>>)}

RepoStatuses == {200, 401, 500}

RepoAnswers == {NoAnswer} \cup {Answer(st, b) : st \in RepoStatuses, b \in RepoBodies}

RepoArgs ==
    {[token |-> t, owner |-> o, page |-> pg, per_page |-> pp] :
        t \in Tokens, o \in Logins, pg \in {Omitted, Given(2)},
        pp \in {Omitted} \cup {Given(k) : k \in (RepoPerPageLimit - 1)..MaxRepoPerPage}}

\* str.lower() of the letters a repository name of the model has
LowerChar(c) == IF c = "A" THEN "a" ELSE c
Lower(text) == [i \in 1..Len(text) |-> LowerChar(text[i])]

\* {f"{owner}/{repo.get('name', '').lower()}": f"{repo.get('clone_url')}"}
RepoItem(repo_owner, repo) ==
    [full_name |-> repo_owner \o <<"/">>
                   \o Lower(IF repo.name = FieldAbsent THEN <<>> ELSE repo.name),
     clone_url |-> IF repo.clone_url = FieldAbsent THEN <<"N", "o", "n", "e">>
                   ELSE repo.clone_url]

ExceedsRepoLimit_OffByOne(per_page_number) == per_page_number > RepoPerPageLimit + 1

\* per_page_number > 30
ExceedsRepoLimit(per_page_number) == per_page_number > RepoPerPageLimit

RepoPerPageNumber(args) ==
    IF ~args.per_page.given THEN DefaultRepoPerPage ELSE args.per_page.v

\* how get_user_repositories ends once the request was answered: response.json()
\* is read whatever the status is, and its items are kept under status 200 only
RepositoriesOutcome(args, resp) ==
    IF resp = NoAnswer THEN RaisedBy("ConnectionError")
    ELSE IF resp.body.json = "invalid" THEN RaisedBy("JSONDecodeError")
    ELSE IF resp.body.json = "null" THEN RaisedBy("TypeError")
    ELSE IF resp.body.json = "object"
    THEN (IF resp.status = 200 THEN RaisedBy("AttributeError") ELSE Returned(<<>>))
    ELSE IF resp.status = 200
    THEN Returned([i \in 1..Len(resp.body.items) |-> RepoItem(args.owner, resp.body.items[i])])
    ELSE Returned(<<>>)

\* GithubRepo.get_user_repositories(token, owner, page, per_page)
GetUserRepositories ==
    \E args \in RepoArgs :
        /\ IF ExceedsRepoLimit(RepoPerPageNumber(args))
           THEN client_call' = ClientCall("get_user_repositories", args, 0, NoAnswer,
                                          <<owner, avatar>>, RaisedBy("ValueError"))
           ELSE \E resp \in RepoAnswers :
                   client_call' = ClientCall("get_user_repositories", args, 1, resp,
                                             <<owner, avatar>>, RepositoriesOutcome(args, resp))
        /\ UNCHANGED <<owner, avatar>>

(***************************************************************************)
(* The local repository and gui.GitRepo.                                   *)
(* A repository is three trees over the same paths: the HEAD commit, the   *)
(* index and the working tree. An index entry may be unmerged (a merge     *)
(* stopped on a conflict in that path).                                    *)
(***************************************************************************)
Paths == {"a.txt", "b.txt"}
\* git lists paths in byte order
PathOrder == <<"a.txt", "b.txt">>
Blobs == {"v1", "v2"}
NoBlob == "-"

IndexEntry(blob, unmerged) == [blob |-> blob, unmerged |-> unmerged]
NotInIndex == IndexEntry(NoBlob, FALSE)
IndexEntries == {NotInIndex} \cup {IndexEntry(b, u) : b \in Blobs, u \in BOOLEAN}

Tracked(idx, p) == idx[p] # NotInIndex

\* a git.Diff: the paths and blobs of its two sides and its change type
Diff(a_path, b_path, change_type, a_blob, b_blob) ==
    [a_path |-> a_path, b_path |-> b_path, change_type |-> change_type,
     a_blob |-> a_blob, b_blob |-> b_blob]

\* repo.index.diff(None): the index against the working tree. The working
\* tree side of an entry has no blob. An unmerged path is listed twice: once
\* as unmerged (U) and once for the working tree file (M, or D when it is gone).
WorktreeDiffOf(idx, wt, p) ==
    IF ~Tracked(idx, p) THEN <<>>
    ELSE IF idx[p].unmerged
    THEN <<Diff(p, p, "U", NoBlob, NoBlob),
           Diff(p, p, IF wt[p] = NoBlob THEN "D" ELSE "M", idx[p].blob, NoBlob)>>
    ELSE IF wt[p] = NoBlob THEN <<Diff(p, p, "D", idx[p].blob, NoBlob)>>
    ELSE IF wt[p] # idx[p].blob THEN <<Diff(p, p, "M", idx[p].blob, NoBlob)>>
    ELSE <<>>

\* the entries of the paths from the i-th on, in path order
RECURSIVE WorktreeDiffFrom(_, _, _)
WorktreeDiffFrom(idx, wt, i) ==
    IF i > Len(PathOrder) THEN <<>>
    ELSE WorktreeDiffOf(idx, wt, PathOrder[i]) \o WorktreeDiffFrom(idx, wt, i + 1)

IndexDiffNone(idx, wt) == WorktreeDiffFrom(idx, wt, 1)

\* repo.untracked_files: the files of the working tree the index does not have
UntrackedFiles(idx, wt) ==
    LET untracked(p) == ~Tracked(idx, p) /\ wt[p] # NoBlob
    IN  SelectSeq(PathOrder, untracked)

\* repo.index.diff(repo.head.commit): the index against a commit is the
\* reverse diff of the commit against the index, so the a side of an entry is
\* the index and its b side the commit: a file new in the index reads as
\* deleted (D), a file gone from the index as added (A). A file gone under
\* one path and new with the same blob under another reads as one rename (R).
StagedDiffOf(idx, hd, p) ==
    IF Tracked(idx, p) /\ idx[p].unmerged THEN <<Diff(p, p, "U", idx[p].blob, NoBlob)>>
    ELSE IF idx[p].blob = hd[p] THEN <<>>
    ELSE IF hd[p] = NoBlob THEN <<Diff(p, p, "D", idx[p].blob, NoBlob)>>
    ELSE IF idx[p].blob = NoBlob THEN <<Diff(p, p, "A", NoBlob, hd[p])>>
    ELSE <<Diff(p, p, "M", idx[p].blob, hd[p])>>

RenamePairs(idx, hd) ==
    {pq \in Paths \X Paths :
        /\ hd[pq[1]] = NoBlob /\ Tracked(idx, pq[1]) /\ ~idx[pq[1]].unmerged
        /\ hd[pq[2]] # NoBlob /\ ~Tracked(idx, pq[2])
        /\ idx[pq[1]].blob = hd[pq[2]]}

RECURSIVE StagedDiffFrom(_, _, _)
StagedDiffFrom(idx, hd, i) ==
    IF i > Len(PathOrder) THEN <<>>
    ELSE StagedDiffOf(idx, hd, PathOrder[i]) \o StagedDiffFrom(idx, hd, i + 1)

IndexDiffHead(idx, hd) ==
    IF RenamePairs(idx, hd) # {}
    THEN LET pq == CHOOSE x \in RenamePairs(idx, hd) : TRUE
         IN  <<Diff(pq[1], pq[2], "R", idx[pq[1]].blob, hd[pq[2]])>>
    ELSE StagedDiffFrom(idx, hd, 1)

\* {"file_name": diff.a_path, "change_type": diff.change_type}
FileInfo(file_name, change_type) == [file_name |-> file_name, change_type |-> change_type]
FileInfos(diffs) == [i \in 1..Len(diffs) |-> FileInfo(diffs[i].a_path, diffs[i].change_type)]

FileNames(infos) == {infos[i].file_name : i \in 1..Len(infos)}

\* the loop over repo.untracked_files: a path is appended with change type
\* "A" unless an entry of that name is in the list already
RECURSIVE AppendUntracked(_, _)
AppendUntracked(unstaged_files, untracked) ==
    IF untracked = <<>> THEN unstaged_files
    ELSE AppendUntracked(
            IF Head(untracked) \in FileNames(unstaged_files) THEN unstaged_files
            ELSE Append(unstaged_files, FileInfo(Head(untracked), "A")),
            Tail(untracked))

\* what the path given to get_status is: no directory, a directory outside
\* every repository, or a directory of the repository
PathKinds == {"nodir", "norepo", "repo"}

\* The index as a later git command of the same call may find it: the
\* commands of get_status run one after the other, and another process, or
\* a stage or unstage task of this program on its own thread, may write the
\* index between two of them. Here: one path leaves the index.
IndexRaces(idx) ==
    {idx} \cup {[idx EXCEPT ![p] = NotInIndex] : p \in {q \in Paths : Tracked(idx, q)}}

LocalCall(op, arg, out, diffs, untracked) ==
    [op |-> op, arg |-> arg, out |-> out, diffs |-> diffs, untracked |-> untracked]

NoLocalCall == LocalCall("none", "-", NoCall, <<>>, <<>>)

Status(staged, unstaged) == [staged |-> staged, unstaged |-> unstaged]

CapturedDiffs_Accumulated(old_diffs, diffs) == old_diffs \o diffs

\* self.staged_diffs = list(repo.index.diff(repo.head.commit)): the list is
\* replaced, whatever it held
CapturedDiffs(old_diffs, diffs) == diffs

PathCheck_RepoNotChecked(kind) ==
    IF kind = "nodir" THEN RaisedBy("ValueError") ELSE [kind |-> "passed"]

\* the checks of the path: os.path.isdir(path), then Repo(path, ...)
PathCheck(kind) ==
    IF kind = "nodir" THEN RaisedBy("ValueError")
    ELSE IF kind = "norepo" THEN RaisedBy("InvalidGitRepositoryError")
    ELSE [kind |-> "passed"]

\* what is known of the latest get_status that returned while nothing
\* changed the repository during it or after it: whether there was one
\* ("once"), or two in a row ("again"), and what the latest of them left
NoRepeat == [seen |-> "no", out |-> NoCall, kept |-> <<>>]
Repeat(seen, out, kept) == [seen |-> seen, out |-> out, kept |-> kept]

\* GitRepo.get_status(path) for a path of a kind, where the commands after
\* the first find the index `later`
GetStatusAt(kind, later) ==
    IF PathCheck(kind).kind = "raised"
    THEN /\ local_call' = LocalCall("get_status", kind, PathCheck(kind), <<>>, <<>>)
         /\ UNCHANGED <<head, index, worktree, staged_diffs, captured, unchanged_since>>
    ELSE LET diffs == IndexDiffNone(index, worktree)
                untracked == UntrackedFiles(later, worktree)
                staged_files == FileInfos(CapturedDiffs(staged_diffs, IndexDiffHead(index, head)))
                unstaged_files == AppendUntracked(FileInfos(diffs), untracked)
            IN  /\ staged_diffs' = CapturedDiffs(staged_diffs, IndexDiffHead(index, head))
                /\ captured' = [taken |-> TRUE, index |-> index]
                /\ index' = later
                /\ local_call' = LocalCall("get_status", kind,
                                           Returned(Status(staged_files, unstaged_files)),
                                           diffs, untracked)
                /\ unchanged_since' =
                      IF later # index THEN NoRepeat
                      ELSE Repeat(IF unchanged_since.seen = "no" THEN "once" ELSE "again",
                                  Returned(Status(staged_files, unstaged_files)),
                                  CapturedDiffs(staged_diffs, IndexDiffHead(index, head)))
                /\ UNCHANGED <<head, worktree>>

\* GitRepo.get_status(path) for a path of a kind
GetStatusOn(kind) == \E later \in IndexRaces(index) : GetStatusAt(kind, later)

\* GitRepo.get_status(path)
GetStatus == \E kind \in PathKinds : GetStatusOn(kind)

\* the text of a blob
BlobText(blob) ==
    IF blob = "v1" THEN "one"
    ELSE IF blob = "v2" THEN "two"
    ELSE IF blob = "utf16" THEN "a<NUL>b<NUL>"
    ELSE "<undecodable>"

\* the bytes of a blob: the texts "one" and "two", the text "ab" in UTF-16
\* (a NUL after each letter), the first bytes of a PNG image, and the text
\* "c\u00e9" in Latin-1
BlobBytes(blob) ==
    IF blob = "v1" THEN <<111, 110, 101>>
    ELSE IF blob = "v2" THEN <<116, 119, 111>>
    ELSE IF blob = "utf16" THEN <<97, 0, 98, 0>>
    ELSE IF blob = "png" THEN <<137, 80, 78, 71>>
    ELSE <<99, 233>>

\* the continuation bytes that the first byte of a UTF-8 sequence asks for,
\* and -1 for a byte that starts none
Utf8Tail(b) ==
    IF b < 128 THEN 0
    ELSE IF b >= 194 /\ b <= 223 THEN 1
    ELSE IF b >= 224 /\ b <= 239 THEN 2
    ELSE IF b >= 240 /\ b <= 244 THEN 3
    ELSE -1

\* bytes.decode('utf-8') raises no UnicodeDecodeError: every sequence has
\* its continuation bytes
RECURSIVE Utf8Decodable(_)
Utf8Decodable(bytes) ==
    IF bytes = <<>> THEN TRUE
    ELSE /\ Utf8Tail(Head(bytes)) >= 0
         /\ Len(bytes) > Utf8Tail(Head(bytes))
         /\ \A i \in 2..(Utf8Tail(Head(bytes)) + 1) : bytes[i] >= 128 /\ bytes[i] <= 191
         /\ Utf8Decodable(SubSeq(bytes, Utf8Tail(Head(bytes)) + 2, Len(bytes)))

\* blob.data_stream.read().decode('utf-8'), and "" for a side without a blob
\* (AttributeError on None) or with bytes that are no UTF-8
\* (UnicodeDecodeError)
DecodeSide(blob) ==
    IF blob = NoBlob THEN ""
    ELSE IF ~Utf8Decodable(BlobBytes(blob)) THEN ""
    ELSE BlobText(blob)

\* GitRepo._decode_blob(diff): old_content from the a side, new_content from
\* the b side
DecodeBlob(diff) == [old |-> DecodeSide(diff.a_blob), new |-> DecodeSide(diff.b_blob)]

\* combined_diffs[file_path] = {"old": ..., "new": ...}: a dict keeps its
\* keys in the order they came in, and a key set again keeps its place
DictSet(dict, key, value) ==
    IF \E i \in 1..Len(dict) : dict[i].key = key
    THEN [i \in 1..Len(dict) |-> IF dict[i].key = key THEN [key |-> key, value |-> value]
                                 ELSE dict[i]]
    ELSE Append(dict, [key |-> key, value |-> value])

\* file_path = diff.b_path or diff.a_path
DiffKey(diff) == IF diff.b_path # "" THEN diff.b_path ELSE diff.a_path

\* the loop of combine_all_blobs over the diffs from the i-th on
RECURSIVE CombineFrom(_, _, _)
CombineFrom(diffs, i, combined_diffs) ==
    IF i > Len(diffs) THEN combined_diffs
    ELSE CombineFrom(diffs, i + 1,
                     IF DiffKey(diffs[i]) = "" THEN combined_diffs
                     ELSE DictSet(combined_diffs, DiffKey(diffs[i]), DecodeBlob(diffs[i])))

DiffsToCombine_FreshRead(kept_diffs, idx, hd) == IndexDiffHead(idx, hd)

\* for diff in self.staged_diffs: the diffs that get_status kept, no read
\* of the repository
DiffsToCombine(kept_diffs, idx, hd) == kept_diffs

\* GitRepo.combine_all_blobs()
CombineAllBlobs ==
    /\ local_call' = LocalCall("combine_all_blobs", "-",
                               Returned(CombineFrom(DiffsToCombine(staged_diffs, index, head),
                                                    1, <<>>)),
                               <<>>, <<>>)
    /\ UNCHANGED <<head, index, worktree, staged_diffs, captured, unchanged_since>>

FileSets == (SUBSET Paths) \ {{}}

\* GitRepo.stage_files(path, files_to_stage): repo.index.add(files) writes
\* the index once every file was read; a file that is gone raises first.
\* It writes the merged entry of a path and leaves its conflict stages.
StageFilesOf(files) ==
    /\ IF \E p \in files : p \notin Paths \/ worktree[p] = NoBlob
       THEN /\ local_call' = LocalCall("stage_files", files,
                                       RaisedBy("FileNotFoundError"), <<>>, <<>>)
            /\ UNCHANGED index
       ELSE /\ index' = [p \in Paths |->
                            IF p \in files THEN IndexEntry(worktree[p], index[p].unmerged)
                            ELSE index[p]]
            /\ local_call' = LocalCall("stage_files", files, Returned(TRUE), <<>>, <<>>)
    /\ unchanged_since' = NoRepeat
    /\ UNCHANGED <<head, worktree, staged_diffs, captured>>

StageFiles == \E files \in FileSets : StageFilesOf(files)

\* the entry of a path in the index read from the HEAD commit
HeadEntry(hd, p) == IF hd[p] = NoBlob THEN NotInIndex ELSE IndexEntry(hd[p], FALSE)

\* GitRepo.unstage_files(path, files_to_unstage): repo.index.reset(paths=files)
\* sets the merged entry of each path to the one of HEAD, or drops it,
\* and leaves the conflict stages of an unmerged path; a path that neither
\* HEAD nor the index has is passed over
UnstageFilesOf(files) ==
    /\ index' = [p \in Paths |->
                    IF p \in files
                    THEN (IF index[p].unmerged THEN index[p] ELSE HeadEntry(head, p))
                    ELSE index[p]]
    /\ local_call' = LocalCall("unstage_files", files, Returned(TRUE), <<>>, <<>>)
    /\ unchanged_since' = NoRepeat
    /\ UNCHANGED <<head, worktree, staged_diffs, captured>>

UnstageFiles == \E files \in FileSets : UnstageFilesOf(files)

\* GitRepo.unstage_all_files(path): repo.index.reset() reads the index from HEAD
UnstageAllFiles ==
    /\ index' = [p \in Paths |-> HeadEntry(head, p)]
    /\ local_call' = LocalCall("unstage_all_files", "-", Returned(TRUE), <<>>, <<>>)
    /\ unchanged_since' = NoRepeat
    /\ UNCHANGED <<head, worktree, staged_diffs, captured>>

\* outside the program: a file of the working tree is written or removed
EditFile ==
    \E p \in Paths, b \in Blobs \cup {NoBlob} :
        /\ worktree[p] # b
        /\ worktree' = [worktree EXCEPT ![p] = b]
        /\ unchanged_since' = NoRepeat
        /\ UNCHANGED <<head, index, staged_diffs, captured, local_call>>

\* outside the program: a merge stops on a conflict in a committed path
MergeConflict ==
    \E p \in Paths :
        /\ head[p] # NoBlob
        /\ Tracked(index, p)
        /\ ~index[p].unmerged
        /\ index' = [index EXCEPT ![p] = IndexEntry(index[p].blob, TRUE)]
        /\ unchanged_since' = NoRepeat
        /\ UNCHANGED <<head, worktree, staged_diffs, captured, local_call>>

(***************************************************************************)
(* ai_analyzer: generate_ai_response and the request builders.             *)
(***************************************************************************)
\* "Error: Could not get analysis from AI.", by its first word
AiErrorText == <<"E", "r", "r", "o", "r", ":">>

\* what client.models.generate_content does: a response with a text, a
\* response whose text is None, an error of the API, no connection
GeneratedTexts == {<<"f", "i", "x">>, <<" ", "f", "i", "x", "\n">>, <<"\n", " ">>, <<>>}
TextAnswer(text) == [kind |-> "text", text |-> text]
NoTextAnswer == [kind |-> "notext", text |-> None]
ApiErrorAnswer == [kind |-> "apierror", text |-> None]
ConnectionErrorAnswer == [kind |-> "transport", text |-> None]
NotAsked == [kind |-> "notasked", text |-> None]

GenAnswers ==
    {TextAnswer(t) : t \in GeneratedTexts}
        \cup {NoTextAnswer, ApiErrorAnswer, ConnectionErrorAnswer}

GenerateAiResponse_Reraises(answer) ==
    IF answer.kind = "text" THEN Returned(Strip(answer.text))
    ELSE IF answer.kind = "notext" THEN Returned(AiErrorText)
    ELSE RaisedBy("APIError")

\* generate_ai_response(prompt): response.text.strip(), and the fixed text
\* for whatever the try block raises (None.strip() included)
GenerateAiResponse(answer) ==
    IF answer.kind = "text" THEN Returned(Strip(answer.text))
    ELSE Returned(AiErrorText)

\* not x, for a text, a list or None
IsFalsy(x) == x = None \/ x = <<>>

\* the last item of a list
Last(items) == items[Len(items)]

\* "\n".join(f"- {msg.split('/')[-1].strip()}" for msg in commit_messages)
RECURSIVE FormattedCommits(_)
FormattedCommits(commit_messages) ==
    IF commit_messages = <<>> THEN <<>>
    ELSE <<"-", " ">> \o Strip(Last(Split(Head(commit_messages), "/")))
         \o (IF Len(commit_messages) > 1
             THEN <<"\n">> \o FormattedCommits(Tail(commit_messages))
             ELSE <<>>)

\* the f-string of a builder: its template with the inputs put in
Prompt(template, fields) == [template |-> template, fields |-> fields]
NoPrompt == Prompt("none", <<>>)

AiCall(op, args, requests, prompt, answer, out) ==
    [op |-> op, args |-> args, requests |-> requests, prompt |-> prompt,
     answer |-> answer, out |-> out]

NoAiCall == AiCall("none", <<>>, 0, NoPrompt, NotAsked, NoCall)

\* a builder after its check of the inputs: ValueError before anything else,
\* or the prompt sent through generate_ai_response and its result returned
Built(op, args, rejected, prompt, answer) ==
    IF rejected
    THEN AiCall(op, args, 0, NoPrompt, NotAsked, RaisedBy("ValueError"))
    ELSE AiCall(op, args, 1, prompt, answer, GenerateAiResponse(answer))

\* the texts and lists handed to the builders
InputTexts == {None, <<>>, <<" ">>, <<"a">>}
CommitLists == {None, <<>>, <<(<<"d", "/", "m", " ">>)>>, <<(<<"d", "/", "m">>), (<<"x">>)>>}
StagedChanges ==
    {<<>>, <<[key |-> "a.txt", value |-> [old |-> "one", new |-> ""]]>>}

(***************************************************************************)
(* The local-repository page of GitAnalyzerGUI: handlers on the GUI        *)
(* thread, workers on the global thread pool.                              *)
(***************************************************************************)
\* the most workers that have been started and have not finished
MaxWorkers == 2
\* the most signals of workers waiting for the GUI thread
MaxEvents == 1

\* the folder the user chooses: a directory inside a repository
ProjectFolder == <<"/", "r">>

\* Worker(task_function, *args, **kwargs)
Worker(task, path, files) == [task |-> task, path |-> path, files |-> files, out |-> NoCall]

NoStagedText == "No staged changes."
NoUnstagedText == "No unstaged changes."

\* f"{file_info['change_type']}\t{file_info['file_name']}": the text of an
\* item, as its fields between the tabs
DisplayText(file_info) == <<file_info.change_type, file_info.file_name>>

\* item.text().split('\t')[-1]
LastField(item_text) == item_text[Len(item_text)]

\* the items of a list widget after _on_get_local_changes_result filled it
ListItems(file_infos, placeholder) ==
    IF Len(file_infos) > 0
    THEN [i \in 1..Len(file_infos) |-> DisplayText(file_infos[i])]
    ELSE <<(<<placeholder>>)>>

PoolDone_NoWait(workers) == TRUE

\* QThreadPool.globalInstance().waitForDone() returns: every worker that
\* was started has finished
PoolDone(workers) == workers = <<>>

\* write_commits_for_staged_changes(combined_blobs) for blobs that are not
\* empty: what generate_ai_response returns, a message or its fixed text
AiOutcomes == {GenerateAiResponse(answer) : answer \in {TextAnswer(<<"f", "i", "x">>), ApiErrorAnswer}}

Unset == [kind |-> "unset"]

\* Worker.run on a pool thread: no worker, a worker whose run() has not
\* begun, one whose task function has ended, one that emitted result or
\* error, and one that emitted finished
Run(pc, out, emitted) == [pc |-> pc, out |-> out, emitted |-> emitted]
NoRun == Run("none", NoCall, <<>>)

\* how a task function of the program ends: with a value, or with one of
\* the errors the tasks raise
TaskOutcomes ==
    {Returned(<<"message">>), Returned(None), RaisedBy("ValueError"), RaisedBy("ConnectionError"),
     RaisedBy("FileNotFoundError")}

\* the classes that `except Exception` catches, of those the tasks raise
ExceptionClasses ==
    {"ValueError", "ConnectionError", "FileNotFoundError", "InvalidGitRepositoryError",
     "AttributeError", "JSONDecodeError", "RecursionError", "EmptyCommitHistory"}

SignalAfter_NoExceptClause(out) == IF out.kind = "returned" THEN <<"result">> ELSE <<>>

\* the signal of the try statement: result after the task function returned,
\* error from the except clause
SignalAfter(out) ==
    IF out.kind = "returned" THEN <<"result">>
    ELSE IF out.exc \in ExceptionClasses THEN <<"error">>
    ELSE <<>>

\* the repository box: its items, the first of them a prompt, and the
\* index of the current one
SelectRepositoryText == <<"Select a Repository...">>
Combo(items, current) == [items |-> items, current |-> current]

\* repo_combo.currentText()
CurrentText(combo) == combo.items[combo.current + 1]

NoCommitsText == <<"No commits found.">>

\* the repositories of the account as the box names them, and the commit
\* records of each as a fetch of its history returns them
AccountRepos == <<(<<"o", "/", "a">>), (<<"o", "/", "b">>)>>
History(repo_name) == IF repo_name = <<"a">> THEN <<(<<"1", "/", "a">>)>> ELSE <<(<<"2", "/", "b">>)>>

\* how the request of a load is answered: with the commits, with an error
\* status, or not at all
LoadAnswers == {"commits", "status", "transport"}

\* _task_load_commits(repo) on a new GithubCommit: the records of the
\* repository named after the last "/", None when the request is answered
\* with an error status (as it is without a token), or a transport error
LoadOutcome(token, repo, answer) ==
    IF token = None \/ answer = "status" THEN Returned(None)
    ELSE IF answer = "commits" THEN Returned(History(Last(Split(repo, "/"))))
    ELSE RaisedBy("ConnectionError")

\* the items of the commit list after _on_load_commits_result(commits)
CommitItems(commits) == IF commits = None \/ commits = <<>> THEN <<NoCommitsText>> ELSE commits

vars_parse == <<link_desc, link_header, page_info>>
vars_fetch == <<remote, server_link, commit_list, next_pages, reused, fetch_args, fetch_pc, stack,
                http_log, parses, result>>
vars_client == <<owner, avatar, client_call>>
vars_local == <<head, index, worktree, staged_diffs, captured, unchanged_since, local_call>>
vars_gui == <<current_project_path, refresh_local_btn, generate_from_staged_btn,
              staged_files_list, unstaged_files_list, pool, events, close_state,
              staged_since_status, latest_build, waited_for>>
vars_ai == <<ai_call>>
vars_worker == <<runs>>
vars_page == <<gui_token, repo_combo, commit_list_widget>>
vars == <<vars_parse, vars_fetch, vars_client, vars_local, vars_gui, vars_ai, vars_worker, vars_page>>

\* the state of a part that a specification leaves alone
IdleParse ==
    /\ link_desc = NoHeader
    /\ link_header = None
    /\ page_info = Unset

IdleClient ==
    /\ owner = None
    /\ avatar = None
    /\ client_call = NoClientCall

\* no repository is looked at: a commit with b.txt, checked out
IdleLocal ==
    /\ head = [p \in Paths |-> IF p = "b.txt" THEN "v1" ELSE NoBlob]
    /\ index = [p \in Paths |-> HeadEntry(head, p)]
    /\ worktree = head
    /\ staged_diffs = <<>>
    /\ captured = [taken |-> FALSE, index |-> index]
    /\ unchanged_since = NoRepeat
    /\ local_call = NoLocalCall

\* the window as __init__ leaves it: no folder chosen, the lists empty, the
\* refresh button disabled, no worker started
IdleAi == ai_call = NoAiCall

IdleWorker == runs = [thread \in 1..MaxWorkers |-> NoRun]

IdlePage ==
    /\ gui_token = None
    /\ repo_combo = Combo(<<SelectRepositoryText>>, 0)
    /\ commit_list_widget = <<>>

IdleGui ==
    /\ current_project_path = None
    /\ refresh_local_btn = FALSE
    /\ generate_from_staged_btn = TRUE
    /\ staged_files_list = <<>>
    /\ unstaged_files_list = <<>>
    /\ pool = <<>>
    /\ events = <<>>
    /\ close_state = "open"
    /\ staged_since_status = FALSE
    /\ latest_build = "none"
    /\ waited_for = 0

IdleFetch ==
    /\ remote = <<>>
    /\ server_link = NoHeader
    /\ commit_list = None
    /\ next_pages = None
    /\ reused = FALSE
    /\ fetch_args = [page |-> Omitted, per_page |-> Omitted]
    /\ fetch_pc = "idle"
    /\ stack = <<>>
    /\ http_log = <<>>
    /\ parses = 0
    /\ result = NoCall


(***************************************************************************)
(* SpecParse: _parse_link_header applied to one header.                    *)
(***************************************************************************)
InitParse ==
    /\ IdleAi
    /\ IdleWorker
    /\ IdlePage
    /\ IdleGui
    /\ IdleFetch
    /\ IdleClient
    /\ IdleLocal
    /\ link_desc \in LinkDescs
    /\ link_header = RenderHeader(link_desc)
    /\ page_info = Unset

\* page_info = self._parse_link_header(link)
ParseLink ==
    /\ page_info = Unset
    /\ page_info' = ParseLinkHeader(link_header)
    /\ UNCHANGED <<link_desc, link_header>>
    /\ UNCHANGED <<vars_fetch, vars_client, vars_local, vars_gui, vars_ai, vars_worker, vars_page>>

NextParse == ParseLink

SpecParse == InitParse /\ [][NextParse]_vars

(***************************************************************************)
(* Spec: commit fetches on one GithubCommit.                               *)
(***************************************************************************)
Init ==
    /\ IdleAi
    /\ IdleWorker
    /\ IdlePage
    /\ IdleGui
    /\ IdleParse
    /\ IdleClient
    /\ IdleLocal
    /\ remote \in Remotes
    /\ server_link \in FetchLinkDescs
    /\ commit_list = None
    /\ next_pages = None
    /\ reused = FALSE
    /\ fetch_args = [page |-> Omitted, per_page |-> Omitted]
    /\ fetch_pc = "idle"
    /\ stack = <<>>
    /\ http_log = <<>>
    /\ parses = 0
    /\ result = NoCall

Next ==
    \/ GetRepoCommits /\ UNCHANGED <<vars_parse, vars_client, vars_local, vars_gui, vars_ai, vars_worker, vars_page>>
    \/ FetchPage /\ UNCHANGED <<vars_parse, vars_client, vars_local, vars_gui, vars_ai, vars_worker, vars_page>>

Spec == Init /\ [][Next]_vars

(***************************************************************************)
(* SpecClient: calls of GithubProfile and GithubRepo.                      *)
(***************************************************************************)
InitClient ==
    /\ IdleAi
    /\ IdleWorker
    /\ IdlePage
    /\ IdleGui
    /\ IdleParse
    /\ IdleFetch
    /\ IdleClient
    /\ IdleLocal

NextClient ==
    \/ TestGithubConnection /\ UNCHANGED <<vars_parse, vars_fetch, vars_local, vars_gui, vars_ai, vars_worker, vars_page>>
    \/ SetOwnerName /\ UNCHANGED <<vars_parse, vars_fetch, vars_local, vars_gui, vars_ai, vars_worker, vars_page>>
    \/ GetUserRepositories /\ UNCHANGED <<vars_parse, vars_fetch, vars_local, vars_gui, vars_ai, vars_worker, vars_page>>

SpecClient == InitClient /\ [][NextClient]_vars

(***************************************************************************)
(* SpecLocal: calls of gui.GitRepo on a repository that also changes       *)
(* outside the program.                                                    *)
(***************************************************************************)
HeadTrees ==
    {[p \in Paths |-> IF p = "b.txt" THEN "v1" ELSE NoBlob],
     [p \in Paths |-> "v1"]}

InitLocal ==
    /\ IdleAi
    /\ IdleWorker
    /\ IdlePage
    /\ IdleGui
    /\ IdleParse
    /\ IdleFetch
    /\ IdleClient
    /\ head \in HeadTrees
    /\ index = [p \in Paths |-> HeadEntry(head, p)]
    /\ worktree = head
    /\ staged_diffs = <<>>
    /\ captured = [taken |-> FALSE, index |-> index]
    /\ unchanged_since = NoRepeat
    /\ local_call = NoLocalCall

NextLocal ==
    \/ GetStatus /\ UNCHANGED <<vars_parse, vars_fetch, vars_client, vars_gui, vars_ai, vars_worker, vars_page>>
    \/ StageFiles /\ UNCHANGED <<vars_parse, vars_fetch, vars_client, vars_gui, vars_ai, vars_worker, vars_page>>
    \/ UnstageFiles /\ UNCHANGED <<vars_parse, vars_fetch, vars_client, vars_gui, vars_ai, vars_worker, vars_page>>
    \/ UnstageAllFiles /\ UNCHANGED <<vars_parse, vars_fetch, vars_client, vars_gui, vars_ai, vars_worker, vars_page>>
    \/ CombineAllBlobs /\ UNCHANGED <<vars_parse, vars_fetch, vars_client, vars_gui, vars_ai, vars_worker, vars_page>>
    \/ EditFile /\ UNCHANGED <<vars_parse, vars_fetch, vars_client, vars_gui, vars_ai, vars_worker, vars_page>>
    \/ MergeConflict /\ UNCHANGED <<vars_parse, vars_fetch, vars_client, vars_gui, vars_ai, vars_worker, vars_page>>

SpecLocal == InitLocal /\ [][NextLocal]_vars

(***************************************************************************)
(* SpecBlobs: get_status and combine_all_blobs over repositories whose     *)
(* committed and staged files are texts, binary files and texts in other   *)
(* encodings.                                                              *)
(***************************************************************************)
StoredBlobs == {"v1", "utf16", "png", "latin1"}

InitBlobs ==
    /\ IdleAi
    /\ IdleWorker
    /\ IdlePage
    /\ IdleGui
    /\ IdleParse
    /\ IdleFetch
    /\ IdleClient
    /\ head \in [Paths -> StoredBlobs \cup {NoBlob}]
    /\ \E staged \in [Paths -> StoredBlobs \cup {NoBlob}] :
          /\ index = [p \in Paths |-> IndexEntry(staged[p], FALSE)]
          /\ worktree = staged
    /\ staged_diffs = <<>>
    /\ captured = [taken |-> FALSE, index |-> index]
    /\ unchanged_since = NoRepeat
    /\ local_call = NoLocalCall

NextBlobs ==
    \/ GetStatusAt("repo", index) /\ UNCHANGED <<vars_parse, vars_fetch, vars_client, vars_gui, vars_ai, vars_worker, vars_page>>
    \/ CombineAllBlobs /\ UNCHANGED <<vars_parse, vars_fetch, vars_client, vars_gui, vars_ai, vars_worker, vars_page>>

SpecBlobs == InitBlobs /\ [][NextBlobs]_vars

(***************************************************************************)
(* SpecGui: the local-repository page. Handlers run one at a time on the   *)
(* GUI thread; a worker runs its task on a pool thread and leaves a signal *)
(* for the GUI thread. The folder chosen is a repository with b.txt        *)
(* committed and modified in the working tree.                             *)
(* The model follows the program until the close event is accepted.        *)
(***************************************************************************)
InitGui ==
    /\ IdleAi
    /\ IdleWorker
    /\ IdlePage
    /\ IdleParse
    /\ IdleFetch
    /\ IdleClient
    /\ IdleGui
    /\ head = [p \in Paths |-> IF p = "b.txt" THEN "v1" ELSE NoBlob]
    /\ index = [p \in Paths |-> HeadEntry(head, p)]
    /\ worktree = [p \in Paths |-> IF p = "b.txt" THEN "v2" ELSE NoBlob]
    /\ staged_diffs = <<>>
    /\ captured = [taken |-> FALSE, index |-> index]
    /\ unchanged_since = NoRepeat
    /\ local_call = NoLocalCall

\* The pool keeps its workers in no order: they are listed by task, in the
\* order of TaskOrder, and a new worker comes after those of its task.
TaskOrder ==
    <<"get_status", "stage_files", "unstage_files", "unstage_all_files",
      "_task_generate_from_staged", "_task_connect_and_load_all", "_task_load_commits">>
TaskRank(task) == CHOOSE i \in 1..Len(TaskOrder) : TaskOrder[i] = task
Ahead(workers, worker) ==
    Cardinality({i \in 1..Len(workers) : TaskRank(workers[i].task) <= TaskRank(worker.task)})

\* run_task_in_thread(task_function, on_result, on_error, ...): the worker
\* is handed to the pool, whatever the pool is running
RunTaskInThread(worker) ==
    /\ Len(pool) < MaxWorkers
    /\ pool' = SubSeq(pool, 1, Ahead(pool, worker)) \o <<worker>>
                \o SubSeq(pool, Ahead(pool, worker) + 1, Len(pool))

\* refresh_local_repo_view()
RefreshLocalRepoView ==
    IF current_project_path = None
    THEN UNCHANGED <<refresh_local_btn, pool>>
    ELSE /\ refresh_local_btn' = FALSE
         /\ RunTaskInThread(Worker("get_status", current_project_path, {}))

\* select_project_folder(): a folder is chosen in the dialog, once
SelectProjectFolder ==
    /\ close_state = "open"
    /\ current_project_path = None
    /\ current_project_path' = ProjectFolder
    /\ refresh_local_btn' = FALSE
    /\ RunTaskInThread(Worker("get_status", ProjectFolder, {}))
    /\ UNCHANGED <<generate_from_staged_btn, staged_files_list, unstaged_files_list, events,
                   close_state, staged_since_status, latest_build, waited_for>>
    /\ UNCHANGED vars_local

\* the refresh button is clicked
ClickRefresh ==
    /\ close_state = "open"
    /\ refresh_local_btn
    /\ RefreshLocalRepoView
    /\ UNCHANGED <<current_project_path, generate_from_staged_btn, staged_files_list,
                   unstaged_files_list, events, close_state, staged_since_status, latest_build, waited_for>>
    /\ UNCHANGED vars_local

\* run_stage_task(files)
RunStageTask(files) ==
    RunTaskInThread(Worker("stage_files", current_project_path, files))

\* run_unstage_task(files)
RunUnstageTask(files) ==
    RunTaskInThread(Worker("unstage_files", current_project_path, files))

\* handle_stage_selected() with an item of the unstaged list selected
HandleStageSelected ==
    /\ close_state = "open"
    /\ \E i \in 1..Len(unstaged_files_list) :
          RunStageTask({LastField(unstaged_files_list[i])})
    /\ UNCHANGED <<current_project_path, refresh_local_btn, generate_from_staged_btn,
                   staged_files_list, unstaged_files_list, events, close_state,
                   staged_since_status, latest_build, waited_for>>
    /\ UNCHANGED vars_local

\* handle_stage_all() with an unstaged list that has files
HandleStageAll ==
    /\ close_state = "open"
    /\ LET all_files == {LastField(unstaged_files_list[i]) :
                            i \in {j \in 1..Len(unstaged_files_list) :
                                      unstaged_files_list[j] # <<NoUnstagedText>>}}
       IN  /\ all_files # {}
           /\ RunStageTask(all_files)
    /\ UNCHANGED <<current_project_path, refresh_local_btn, generate_from_staged_btn,
                   staged_files_list, unstaged_files_list, events, close_state,
                   staged_since_status, latest_build, waited_for>>
    /\ UNCHANGED vars_local

\* handle_unstage_selected() with an item of the staged list selected
HandleUnstageSelected ==
    /\ close_state = "open"
    /\ \E i \in 1..Len(staged_files_list) :
          RunUnstageTask({LastField(staged_files_list[i])})
    /\ UNCHANGED <<current_project_path, refresh_local_btn, generate_from_staged_btn,
                   staged_files_list, unstaged_files_list, events, close_state,
                   staged_since_status, latest_build, waited_for>>
    /\ UNCHANGED vars_local

\* handle_unstage_all() with a staged list that has files
HandleUnstageAll ==
    /\ close_state = "open"
    /\ Len(staged_files_list) # 0
    /\ staged_files_list[1] # <<NoStagedText>>
    /\ RunTaskInThread(Worker("unstage_all_files", current_project_path, {}))
    /\ UNCHANGED <<current_project_path, refresh_local_btn, generate_from_staged_btn,
                   staged_files_list, unstaged_files_list, events, close_state,
                   staged_since_status, latest_build, waited_for>>
    /\ UNCHANGED vars_local

\* run_staged_changes_analysis(): the generate button is clicked while
\* local_git_repo.staged_diffs has entries
RunStagedChangesAnalysis ==
    /\ close_state = "open"
    /\ generate_from_staged_btn
    /\ staged_diffs # <<>>
    /\ generate_from_staged_btn' = FALSE
    /\ RunTaskInThread(Worker("_task_generate_from_staged", None, {}))
    /\ UNCHANGED <<current_project_path, refresh_local_btn, staged_files_list,
                   unstaged_files_list, events, close_state, staged_since_status,
                   latest_build, waited_for>>
    /\ UNCHANGED vars_local

\* Worker.run: the result or the error goes to the GUI thread as a signal,
\* and the worker is done. A signal left while closeEvent waits is not
\* followed: no handler runs before the close is accepted.
Emitted(slot, on_result, out) ==
    /\ pool' = SubSeq(pool, 1, slot - 1) \o SubSeq(pool, slot + 1, Len(pool))
    /\ IF close_state = "open"
       THEN /\ Len(events) < MaxEvents
            /\ events' = Append(events, [handler |-> IF out.kind = "returned" THEN on_result
                                                     ELSE "_on_task_error",
                                         out |-> out])
       ELSE UNCHANGED events

\* a worker runs local_git_repo.get_status(path) and holds what it returned;
\* no other process writes the index
GetStatusWorker ==
    \E slot \in DOMAIN pool :
        /\ pool[slot].task = "get_status"
        /\ pool[slot].out = NoCall
        /\ GetStatusAt("repo", index)
        /\ pool' = [pool EXCEPT ![slot].out = local_call'.out]
        /\ staged_since_status' = (staged_since_status /\ local_call'.out.kind # "returned")
        /\ UNCHANGED <<current_project_path, refresh_local_btn, generate_from_staged_btn,
                       staged_files_list, unstaged_files_list, events, close_state,
                       latest_build, waited_for>>

\* the worker that ran get_status emits its signal, whenever its thread
\* gets to it
GetStatusEmit ==
    \E slot \in DOMAIN pool :
        /\ pool[slot].task = "get_status"
        /\ pool[slot].out # NoCall
        /\ Emitted(slot, "_on_get_local_changes_result", pool[slot].out)
        /\ UNCHANGED <<current_project_path, refresh_local_btn, generate_from_staged_btn,
                       staged_files_list, unstaged_files_list, close_state,
                       staged_since_status, latest_build, waited_for>>
        /\ UNCHANGED vars_local

\* a worker runs local_git_repo.stage_files(path, files_to_stage)
StageWorker ==
    \E slot \in DOMAIN pool :
        /\ pool[slot].task = "stage_files"
        /\ StageFilesOf(pool[slot].files)
        /\ Emitted(slot, "_on_stage_complete", local_call'.out)
        /\ staged_since_status' = (staged_since_status \/ local_call'.out.kind = "returned")
        /\ UNCHANGED <<current_project_path, refresh_local_btn, generate_from_staged_btn,
                       staged_files_list, unstaged_files_list, close_state, latest_build, waited_for>>

\* a worker runs local_git_repo.unstage_files(path, files_to_unstage)
UnstageWorker ==
    \E slot \in DOMAIN pool :
        /\ pool[slot].task = "unstage_files"
        /\ UnstageFilesOf(pool[slot].files)
        /\ Emitted(slot, "_on_unstage_complete", local_call'.out)
        /\ staged_since_status' = TRUE
        /\ UNCHANGED <<current_project_path, refresh_local_btn, generate_from_staged_btn,
                       staged_files_list, unstaged_files_list, close_state, latest_build, waited_for>>

\* a worker runs local_git_repo.unstage_all_files(path)
UnstageAllWorker ==
    \E slot \in DOMAIN pool :
        /\ pool[slot].task = "unstage_all_files"
        /\ UnstageAllFiles
        /\ Emitted(slot, "_on_unstage_complete", local_call'.out)
        /\ staged_since_status' = TRUE
        /\ UNCHANGED <<current_project_path, refresh_local_btn, generate_from_staged_btn,
                       staged_files_list, unstaged_files_list, close_state, latest_build, waited_for>>

\* a worker runs _task_generate_from_staged(): combine_all_blobs(), an error
\* if that gave nothing, then the call of the service
GenerateWorker ==
    \E slot \in DOMAIN pool, ai \in AiOutcomes :
        /\ pool[slot].task = "_task_generate_from_staged"
        /\ CombineAllBlobs
        /\ Emitted(slot, "_on_staged_analysis_result",
                   IF local_call'.out.value = <<>> THEN RaisedBy("ValueError") ELSE ai)
        /\ latest_build' = IF staged_since_status THEN "stale" ELSE "fresh"
        /\ UNCHANGED <<current_project_path, refresh_local_btn, generate_from_staged_btn,
                       staged_files_list, unstaged_files_list, close_state,
                       staged_since_status, waited_for>>

\* the GUI thread takes the oldest signal, one for the handler
Delivered(handler) ==
    /\ close_state = "open"
    /\ events # <<>>
    /\ Head(events).handler = handler
    /\ events' = Tail(events)

\* _on_get_local_changes_result(result)
OnGetLocalChangesResult ==
    /\ Delivered("_on_get_local_changes_result")
    /\ refresh_local_btn' = TRUE
    /\ staged_files_list' = ListItems(Head(events).out.value.staged, NoStagedText)
    /\ unstaged_files_list' = ListItems(Head(events).out.value.unstaged, NoUnstagedText)
    /\ UNCHANGED <<current_project_path, generate_from_staged_btn, pool, close_state,
                   staged_since_status, latest_build, waited_for>>
    /\ UNCHANGED vars_local

\* _on_stage_complete(result)
OnStageComplete ==
    /\ Delivered("_on_stage_complete")
    /\ RefreshLocalRepoView
    /\ UNCHANGED <<current_project_path, generate_from_staged_btn, staged_files_list,
                   unstaged_files_list, close_state, staged_since_status, latest_build, waited_for>>
    /\ UNCHANGED vars_local

\* _on_unstage_complete(result)
OnUnstageComplete ==
    /\ Delivered("_on_unstage_complete")
    /\ RefreshLocalRepoView
    /\ UNCHANGED <<current_project_path, generate_from_staged_btn, staged_files_list,
                   unstaged_files_list, close_state, staged_since_status, latest_build, waited_for>>
    /\ UNCHANGED vars_local

\* _on_staged_analysis_result(result)
OnStagedAnalysisResult ==
    /\ Delivered("_on_staged_analysis_result")
    /\ generate_from_staged_btn' = TRUE
    /\ UNCHANGED <<current_project_path, refresh_local_btn, staged_files_list,
                   unstaged_files_list, pool, close_state, staged_since_status, latest_build, waited_for>>
    /\ UNCHANGED vars_local

\* _on_task_error(error_tuple): the buttons are enabled again, all of them
OnTaskError ==
    /\ Delivered("_on_task_error")
    /\ refresh_local_btn' = TRUE
    /\ generate_from_staged_btn' = TRUE
    /\ UNCHANGED <<current_project_path, staged_files_list, unstaged_files_list, pool,
                   close_state, staged_since_status, latest_build, waited_for>>
    /\ UNCHANGED vars_local

\* closeEvent(event) starts: the GUI thread is inside waitForDone()
CloseEventWait ==
    /\ close_state = "open"
    /\ close_state' = "waiting"
    /\ waited_for' = Len(pool)
    /\ UNCHANGED <<current_project_path, refresh_local_btn, generate_from_staged_btn,
                   staged_files_list, unstaged_files_list, pool, events,
                   staged_since_status, latest_build>>
    /\ UNCHANGED vars_local

\* waitForDone() returns and event.accept() runs
CloseEventAccept ==
    /\ close_state = "waiting"
    /\ PoolDone(pool)
    /\ close_state' = "accepted"
    /\ UNCHANGED <<current_project_path, refresh_local_btn, generate_from_staged_btn,
                   staged_files_list, unstaged_files_list, pool, events,
                   staged_since_status, latest_build, waited_for>>
    /\ UNCHANGED vars_local

NextGui ==
    \/ SelectProjectFolder /\ UNCHANGED <<vars_parse, vars_fetch, vars_client, vars_ai, vars_worker, vars_page>>
    \/ ClickRefresh /\ UNCHANGED <<vars_parse, vars_fetch, vars_client, vars_ai, vars_worker, vars_page>>
    \/ HandleStageSelected /\ UNCHANGED <<vars_parse, vars_fetch, vars_client, vars_ai, vars_worker, vars_page>>
    \/ HandleStageAll /\ UNCHANGED <<vars_parse, vars_fetch, vars_client, vars_ai, vars_worker, vars_page>>
    \/ HandleUnstageSelected /\ UNCHANGED <<vars_parse, vars_fetch, vars_client, vars_ai, vars_worker, vars_page>>
    \/ HandleUnstageAll /\ UNCHANGED <<vars_parse, vars_fetch, vars_client, vars_ai, vars_worker, vars_page>>
    \/ RunStagedChangesAnalysis /\ UNCHANGED <<vars_parse, vars_fetch, vars_client, vars_ai, vars_worker, vars_page>>
    \/ GetStatusWorker /\ UNCHANGED <<vars_parse, vars_fetch, vars_client, vars_ai, vars_worker, vars_page>>
    \/ GetStatusEmit /\ UNCHANGED <<vars_parse, vars_fetch, vars_client, vars_ai, vars_worker, vars_page>>
    \/ StageWorker /\ UNCHANGED <<vars_parse, vars_fetch, vars_client, vars_ai, vars_worker, vars_page>>
    \/ UnstageWorker /\ UNCHANGED <<vars_parse, vars_fetch, vars_client, vars_ai, vars_worker, vars_page>>
    \/ UnstageAllWorker /\ UNCHANGED <<vars_parse, vars_fetch, vars_client, vars_ai, vars_worker, vars_page>>
    \/ GenerateWorker /\ UNCHANGED <<vars_parse, vars_fetch, vars_client, vars_ai, vars_worker, vars_page>>
    \/ OnGetLocalChangesResult /\ UNCHANGED <<vars_parse, vars_fetch, vars_client, vars_ai, vars_worker, vars_page>>
    \/ OnStageComplete /\ UNCHANGED <<vars_parse, vars_fetch, vars_client, vars_ai, vars_worker, vars_page>>
    \/ OnUnstageComplete /\ UNCHANGED <<vars_parse, vars_fetch, vars_client, vars_ai, vars_worker, vars_page>>
    \/ OnStagedAnalysisResult /\ UNCHANGED <<vars_parse, vars_fetch, vars_client, vars_ai, vars_worker, vars_page>>
    \/ OnTaskError /\ UNCHANGED <<vars_parse, vars_fetch, vars_client, vars_ai, vars_worker, vars_page>>
    \/ CloseEventWait /\ UNCHANGED <<vars_parse, vars_fetch, vars_client, vars_ai, vars_worker, vars_page>>
    \/ CloseEventAccept /\ UNCHANGED <<vars_parse, vars_fetch, vars_client, vars_ai, vars_worker, vars_page>>

SpecGui == InitGui /\ [][NextGui]_vars

(***************************************************************************)
(* SpecAi: calls of the request builders of ai_analyzer, each with the     *)
(* answer the generation endpoint would give.                              *)
(***************************************************************************)
InitAi ==
    /\ IdleParse
    /\ IdleFetch
    /\ IdleClient
    /\ IdleLocal
    /\ IdleGui
    /\ IdleWorker
    /\ IdlePage
    /\ ai_call = NoAiCall

\* analyze_commit_list_with_ai(commit_messages)
AnalyzeCommitListWithAi ==
    \E commit_messages \in CommitLists, answer \in GenAnswers :
        ai_call' = Built("analyze_commit_list_with_ai", <<commit_messages>>,
                         IsFalsy(commit_messages),
                         Prompt("analyze", <<IF IsFalsy(commit_messages) THEN <<>>
                                             ELSE FormattedCommits(commit_messages)>>),
                         answer)

\* commit_best_practice(commit_message)
CommitBestPractice ==
    \E commit_message \in InputTexts, answer \in GenAnswers :
        ai_call' = Built("commit_best_practice", <<commit_message>>,
                         IsFalsy(commit_message),
                         Prompt("best_practice", <<commit_message>>), answer)

\* write_commit_message(message)
WriteCommitMessage ==
    \E message \in InputTexts, answer \in GenAnswers :
        ai_call' = Built("write_commit_message", <<message>>,
                         IsFalsy(message),
                         Prompt("message", <<message>>), answer)

\* write_commit_base_on_diff(old_code, new_code): if not old_code and not new_code
WriteCommitBaseOnDiff ==
    \E old_code \in InputTexts, new_code \in InputTexts, answer \in GenAnswers :
        ai_call' = Built("write_commit_base_on_diff", <<old_code, new_code>>,
                         IsFalsy(old_code) /\ IsFalsy(new_code),
                         Prompt("diff", <<old_code, new_code>>), answer)

\* write_commits_for_staged_changes(staged_changes)
WriteCommitsForStagedChanges ==
    \E staged_changes \in StagedChanges, answer \in GenAnswers :
        ai_call' = Built("write_commits_for_staged_changes", <<staged_changes>>,
                         staged_changes = <<>>,
                         Prompt("staged", <<staged_changes>>), answer)

NextAi ==
    \/ AnalyzeCommitListWithAi /\ UNCHANGED <<vars_parse, vars_fetch, vars_client, vars_local, vars_gui, vars_worker, vars_page>>
    \/ CommitBestPractice /\ UNCHANGED <<vars_parse, vars_fetch, vars_client, vars_local, vars_gui, vars_worker, vars_page>>
    \/ WriteCommitMessage /\ UNCHANGED <<vars_parse, vars_fetch, vars_client, vars_local, vars_gui, vars_worker, vars_page>>
    \/ WriteCommitBaseOnDiff /\ UNCHANGED <<vars_parse, vars_fetch, vars_client, vars_local, vars_gui, vars_worker, vars_page>>
    \/ WriteCommitsForStagedChanges /\ UNCHANGED <<vars_parse, vars_fetch, vars_client, vars_local, vars_gui, vars_worker, vars_page>>

SpecAi == InitAi /\ [][NextAi]_vars

(***************************************************************************)
(* SpecWorker: Worker.run, on each thread of the pool.                     *)
(***************************************************************************)
InitWorker ==
    /\ IdleParse
    /\ IdleFetch
    /\ IdleClient
    /\ IdleLocal
    /\ IdleGui
    /\ IdleAi
    /\ IdlePage
    /\ runs = [thread \in 1..MaxWorkers |-> NoRun]

\* QThreadPool.start(worker): a thread that runs no worker takes it
StartWorker(thread) ==
    /\ runs[thread].pc \in {"none", "finished"}
    /\ runs' = [runs EXCEPT ![thread] = Run("started", NoCall, <<>>)]

\* result = self.fn(*self.args, **self.kwargs)
CallFn(thread) ==
    /\ runs[thread].pc = "started"
    /\ \E out \in TaskOutcomes : runs' = [runs EXCEPT ![thread] = Run("called", out, <<>>)]

\* self.signals.result.emit(result), or the except clause with
\* self.signals.error.emit(...)
EmitResultOrError(thread) ==
    /\ runs[thread].pc = "called"
    /\ runs' = [runs EXCEPT ![thread] = Run("signalled", @.out, @.emitted \o SignalAfter(@.out))]

\* finally: self.signals.finished.emit()
EmitFinished(thread) ==
    /\ runs[thread].pc = "signalled"
    /\ runs' = [runs EXCEPT ![thread] = Run("finished", @.out, Append(@.emitted, "finished"))]

NextWorker ==
    \/ (\E thread \in 1..MaxWorkers : StartWorker(thread))
          /\ UNCHANGED <<vars_parse, vars_fetch, vars_client, vars_local, vars_gui, vars_ai, vars_page>>
    \/ (\E thread \in 1..MaxWorkers : CallFn(thread))
          /\ UNCHANGED <<vars_parse, vars_fetch, vars_client, vars_local, vars_gui, vars_ai, vars_page>>
    \/ (\E thread \in 1..MaxWorkers : EmitResultOrError(thread))
          /\ UNCHANGED <<vars_parse, vars_fetch, vars_client, vars_local, vars_gui, vars_ai, vars_page>>
    \/ (\E thread \in 1..MaxWorkers : EmitFinished(thread))
          /\ UNCHANGED <<vars_parse, vars_fetch, vars_client, vars_local, vars_gui, vars_ai, vars_page>>

SpecWorker == InitWorker /\ [][NextWorker]_vars

(***************************************************************************)
(* SpecCommits: the GitHub page. The user connects, picks repositories in  *)
(* the box and disconnects, while the pool threads load commit histories.  *)
(***************************************************************************)
InitCommits ==
    /\ IdleParse
    /\ IdleFetch
    /\ IdleClient
    /\ IdleLocal
    /\ IdleGui
    /\ IdleAi
    /\ IdleWorker
    /\ gui_token = None
    /\ repo_combo = Combo(<<SelectRepositoryText>>, 0)
    /\ commit_list_widget = <<>>

\* the variables of the local-repository page that the GitHub page leaves
\* alone
LocalPageUnchanged ==
    /\ UNCHANGED <<current_project_path, refresh_local_btn, generate_from_staged_btn,
                   staged_files_list, unstaged_files_list, close_state,
                   staged_since_status, latest_build, waited_for>>
    /\ UNCHANGED vars_local

\* a connect worker is started or its signal is on its way: the connect
\* button is disabled
Connecting ==
    \/ \E i \in 1..Len(pool) : pool[i].task = "_task_connect_and_load_all"
    \/ events # <<>>

\* connect_to_github()
ConnectToGithub ==
    /\ close_state = "open"
    /\ gui_token = None
    /\ ~Connecting
    /\ \E token \in Tokens : RunTaskInThread(Worker("_task_connect_and_load_all", token, {}))
    /\ UNCHANGED <<events, gui_token, repo_combo, commit_list_widget>>
    /\ LocalPageUnchanged

\* a worker runs _task_connect_and_load_all(token)
ConnectWorker ==
    \E slot \in DOMAIN pool :
        /\ pool[slot].task = "_task_connect_and_load_all"
        /\ \E connection_ok \in BOOLEAN :
              Emitted(slot, "_on_connect_and_load_all_result",
                      IF connection_ok
                      THEN Returned([token |-> pool[slot].path, repos |-> AccountRepos])
                      ELSE RaisedBy("ConnectionError"))
        /\ UNCHANGED <<gui_token, repo_combo, commit_list_widget>>
        /\ LocalPageUnchanged

\* _on_connect_and_load_all_result(result): the box is cleared and filled,
\* and each change of its current index runs on_repo_selected, which
\* clears the commit list
OnConnectAndLoadAllResult ==
    /\ Delivered("_on_connect_and_load_all_result")
    /\ gui_token' = Head(events).out.value.token
    /\ repo_combo' = Combo(<<SelectRepositoryText>> \o Head(events).out.value.repos, 0)
    /\ commit_list_widget' = <<>>
    /\ UNCHANGED pool
    /\ LocalPageUnchanged

\* load_commits()
LoadCommits(combo) ==
    IF CurrentText(combo) = <<>> \/ CurrentText(combo) = SelectRepositoryText
    THEN UNCHANGED pool
    ELSE RunTaskInThread(Worker("_task_load_commits", CurrentText(combo), {}))

\* the user picks another item of the box: on_repo_selected(index)
OnRepoSelected ==
    /\ close_state = "open"
    /\ gui_token # None
    /\ \E picked \in 0..(Len(repo_combo.items) - 1) :
          /\ picked # repo_combo.current
          /\ repo_combo' = Combo(repo_combo.items, picked)
          /\ commit_list_widget' = <<>>
          /\ IF picked > 0 THEN LoadCommits(repo_combo') ELSE UNCHANGED pool
    /\ UNCHANGED <<events, gui_token>>
    /\ LocalPageUnchanged

\* a worker runs _task_load_commits(repo), which reads self.token when it
\* runs
LoadWorker ==
    \E slot \in DOMAIN pool :
        /\ pool[slot].task = "_task_load_commits"
        /\ \E answer \in LoadAnswers :
              Emitted(slot, "_on_load_commits_result",
                      LoadOutcome(gui_token, pool[slot].path, answer))
        /\ UNCHANGED <<gui_token, repo_combo, commit_list_widget>>
        /\ LocalPageUnchanged

\* _on_load_commits_result(commits)
OnLoadCommitsResult ==
    /\ Delivered("_on_load_commits_result")
    /\ commit_list_widget' = CommitItems(Head(events).out.value)
    /\ UNCHANGED <<pool, gui_token, repo_combo>>
    /\ LocalPageUnchanged

\* disconnect_from_github()
DisconnectFromGithub ==
    /\ close_state = "open"
    /\ gui_token # None
    /\ gui_token' = None
    /\ repo_combo' = Combo(<<SelectRepositoryText>>, 0)
    /\ commit_list_widget' = <<>>
    /\ UNCHANGED <<pool, events>>
    /\ LocalPageUnchanged

NextCommits ==
    \/ ConnectToGithub /\ UNCHANGED <<vars_parse, vars_fetch, vars_client, vars_ai, vars_worker>>
    \/ ConnectWorker /\ UNCHANGED <<vars_parse, vars_fetch, vars_client, vars_ai, vars_worker>>
    \/ OnConnectAndLoadAllResult /\ UNCHANGED <<vars_parse, vars_fetch, vars_client, vars_ai, vars_worker>>
    \/ OnRepoSelected /\ UNCHANGED <<vars_parse, vars_fetch, vars_client, vars_ai, vars_worker>>
    \/ LoadWorker /\ UNCHANGED <<vars_parse, vars_fetch, vars_client, vars_ai, vars_worker>>
    \/ OnLoadCommitsResult /\ UNCHANGED <<vars_parse, vars_fetch, vars_client, vars_ai, vars_worker>>
    \/ OnTaskError /\ UNCHANGED <<vars_parse, vars_fetch, vars_client, vars_ai, vars_worker, vars_page>>
    \/ DisconnectFromGithub /\ UNCHANGED <<vars_parse, vars_fetch, vars_client, vars_ai, vars_worker>>

SpecCommits == InitCommits /\ [][NextCommits]_vars



(***************************************************************************)
(* What the claims speak of.                                               *)
(***************************************************************************)
\* the latest call of get_repo_commits has ended
FetchDone == fetch_pc = "idle" /\ result # NoCall

\* the call asked for page 1 first
StartsAtPageOne == http_log # <<>> /\ http_log[1].page = 1

\* the request i of the call was answered 200 with a commit array
ArrayAt(i) == i <= Len(http_log) /\ http_log[i].resp = Response(200, "array")

\* every entry of the repository that has a commit sub-object has its author
AuthorsPresent == \A i \in 1..Len(remote) : remote[i].commit => remote[i].author

\* the records of the entries of page p that have a commit sub-object
RECURSIVE RecordsIn(_)
RecordsIn(entries) ==
    IF entries = <<>> THEN <<>>
    ELSE (IF Head(entries).commit THEN <<Head(entries).date \o <<"/">> \o Head(entries).message>>
          ELSE <<>>) \o RecordsIn(Tail(entries))

PageRecords(p) == RecordsIn(PageEntries(remote, p, PerPageNumber(fetch_args)))

\* the records of pages a..b, page after page
RECURSIVE RecordsOfPages(_, _)
RecordsOfPages(a, b) ==
    IF a > b THEN <<>> ELSE PageRecords(a) \o RecordsOfPages(a + 1, b)

\* the header is <urlA>; rel="next", <urlB>; rel="last"
TwoRelation(d) ==
    /\ d.present
    /\ Len(d.links) = 2
    /\ d.links[1].rel = W_next
    /\ d.links[2].rel = W_last

\* the header is absent or empty, lacks a next or a last relation, or has a
\* next or last URL whose page parameter is missing or no integer
Malformed(d) ==
    \/ ~d.present
    \/ d.links = <<>>
    \/ LinksOf(d, W_next) = {}
    \/ LinksOf(d, W_last) = {}
    \/ \E i \in LinksOf(d, W_next) \cup LinksOf(d, W_last) :
          PageMissing(d.links[i].url) \/ PageNonNumeric(d.links[i].url)

(***************************************************************************)
(* C1. A first call of get_repo_commits on a GithubCommit, for page 1,     *)
(* whose Link header says next=2 and last=N (N >= 2) and whose requests    *)
(* were all answered 200 with arrays of well-formed entries, returns the   *)
(* records of pages 1, 2, ..., N in that order, having asked for each of   *)
(* the pages 1..N once, in ascending order, with one per_page.             *)
(***************************************************************************)
C1_Case(n) ==
    /\ FetchDone
    /\ ~reused
    /\ StartsAtPageOne
    /\ AuthorsPresent
    /\ server_link = Header(<<Link(W_next, PageUrl(2)), Link(W_last, PageUrl(n))>>)
    /\ \A i \in 1..Len(http_log) : ArrayAt(i)

C1_FetchAllPagesInOrder ==
    \A n \in 2..MaxPageNo :
        C1_Case(n) =>
            /\ result = Returned(RecordsOfPages(1, n))
            /\ Len(http_log) = n
            /\ \A i \in 1..Len(http_log) :
                  /\ http_log[i].page = i
                  /\ http_log[i].per_page = PerPageNumber(fetch_args)

C1_Witness ==
    /\ C1_Case(3)
    /\ Len(http_log) = 3
    /\ result.kind = "returned"
    /\ Len(result.value) = 3
    /\ fetch_args.per_page = Given(1)

(***************************************************************************)
(* C2. When the body of the page-1 response carries the status sentinel,   *)
(* get_repo_commits raises EmptyCommitHistory and the page-1 request is    *)
(* the only request of the call.                                           *)
(***************************************************************************)
C2_SentinelRaisesEmptyHistory ==
    (FetchDone /\ StartsAtPageOne /\ http_log[1].resp.body = "sentinel") =>
        /\ result = RaisedBy("EmptyCommitHistory")
        /\ Len(http_log) = 1

\* page 1 is answered 409 with the sentinel and the call returns None
C2_SentinelUnder409 ==
    /\ FetchDone
    /\ StartsAtPageOne
    /\ http_log[1].resp = Response(409, "sentinel")
    /\ Len(http_log) = 1
    /\ result = Returned(None)

(***************************************************************************)
(* C3. When page 1 is answered 200 with an array of well-formed entries    *)
(* and a malformed Link header, the call raises nothing, asks for no       *)
(* further page and returns exactly the records of page 1.                 *)
(***************************************************************************)
C3_Case ==
    /\ FetchDone
    /\ StartsAtPageOne
    /\ ArrayAt(1)
    /\ AuthorsPresent
    /\ Malformed(server_link)

C3_MalformedLinkStopsAtPageOne ==
    C3_Case => result = Returned(PageRecords(1)) /\ Len(http_log) = 1

\* the same on a GithubCommit that was not used before: what is left of C3
\* when the accumulator starts empty
C3_OnFirstCall ==
    (C3_Case /\ ~reused) => result = Returned(PageRecords(1)) /\ Len(http_log) = 1

\* a later call on the same GithubCommit returns more than page 1 has
C3_EarlierRecordsReturned ==
    /\ C3_Case
    /\ reused
    /\ ~server_link.present
    /\ Len(http_log) = 1
    /\ result.kind = "returned"
    /\ Len(result.value) > Len(PageRecords(1))

(***************************************************************************)
(* C4. For a header <urlA>; rel="next", <urlB>; rel="last" whose URLs each *)
(* carry one integer page query parameter, _parse_link_header returns      *)
(* the pair of exactly those integers, next from urlA and last from urlB.  *)
(***************************************************************************)
C4_Case ==
    /\ page_info # Unset
    /\ TwoRelation(link_desc)
    /\ CarriesIntegerPage(link_desc.links[1].url)
    /\ CarriesIntegerPage(link_desc.links[2].url)

C4_TwoRelationHeaderParsed ==
    C4_Case =>
        page_info = PageRange(PageOf(link_desc.links[1].url), PageOf(link_desc.links[2].url))

C4_Witness ==
    /\ C4_Case
    /\ link_desc.links[1].url = Url(<<PagePair(IntValue(2))>>, "after")
    /\ link_desc.links[2].url = Url(<<PagePair(EscapedIntValue(3))>>, "none")
    /\ page_info = PageRange(2, 3)

(***************************************************************************)
(* C5. _parse_link_header returns None, and raises nothing, for an absent  *)
(* or empty header, for a header without a next or without a last          *)
(* relation, and for a header whose next or last URLs have no page         *)
(* parameter or one that is no number.                                     *)
(***************************************************************************)
C5_Case ==
    \/ ~link_desc.present
    \/ link_desc.links = <<>>
    \/ LinksOf(link_desc, W_next) = {}
    \/ LinksOf(link_desc, W_last) = {}
    \/ \E r \in {W_next, W_last} :
          \A i \in LinksOf(link_desc, r) :
              PageMissing(link_desc.links[i].url) \/ PageNonNumeric(link_desc.links[i].url)

C5_MalformedHeaderIsAbsent ==
    (page_info # Unset /\ C5_Case) => page_info = Absent

C5_Witness ==
    /\ page_info = Absent
    /\ TwoRelation(link_desc)
    /\ CarriesPage(link_desc.links[1].url, 2)
    /\ PageNonNumeric(link_desc.links[2].url)

(***************************************************************************)
(* Claims about GithubProfile and GithubRepo, checked under SpecClient.    *)
(***************************************************************************)
LatestIs(op) == client_call.op = op
Answered == client_call.requests = 1 /\ client_call.resp # NoAnswer

\* C6: get_user_repositories called with a per_page greater than 30 fails
\* with a validation error (ValueError) and issues no HTTP request in that
\* call, for every token, owner and page.
C6_Case ==
    /\ LatestIs("get_user_repositories")
    /\ client_call.args.per_page.given
    /\ client_call.args.per_page.v > 30

C6_PerPageAboveLimitRejected ==
    C6_Case => /\ client_call.out = RaisedBy("ValueError")
               /\ client_call.requests = 0

C6_Witness ==
    /\ C6_Case
    /\ client_call.args.per_page.v = 31
    /\ client_call.args.page = Given(2)
    /\ client_call.out = RaisedBy("ValueError")

\* C7: test_github_connection returns True exactly when the profile
\* endpoint answers with status 200; for every other HTTP status it returns
\* False without raising; when the transport fails the error reaches the
\* caller and no boolean is returned.
C7_ConnectionTest ==
    LatestIs("test_github_connection") =>
        /\ client_call.requests = 1
        /\ (client_call.out = Returned(TRUE)) <=> (Answered /\ client_call.resp.status = 200)
        /\ (Answered /\ client_call.resp.status # 200) => client_call.out = Returned(FALSE)
        /\ client_call.resp = NoAnswer =>
              /\ client_call.out.kind = "raised"
              /\ client_call.out \notin {Returned(TRUE), Returned(FALSE)}

C7_Witness ==
    /\ LatestIs("test_github_connection")
    /\ client_call.resp = NoAnswer
    /\ client_call.out = RaisedBy("ConnectionError")

\* C8: _set_owner_name ends with an error whenever the profile endpoint
\* answers 200 with an object that has no login field; it returns nothing
\* and leaves the owner and avatar attributes as they were before the call.
C8_Case ==
    /\ LatestIs("_set_owner_name")
    /\ Answered
    /\ client_call.resp.status = 200
    /\ client_call.resp.body.json = "object"
    /\ client_call.resp.body.login = FieldAbsent

C8_MissingLoginFails ==
    C8_Case => /\ client_call.out.kind = "raised"
               /\ <<owner, avatar>> = client_call.before

C8_Witness ==
    /\ C8_Case
    /\ client_call.resp.body.avatar_url \in AvatarUrls
    /\ client_call.out = RaisedBy("ValueError")
    /\ owner = None

\* C9: get_user_repositories returns an empty sequence and raises no error
\* whenever the HTTP response has a status other than 200, whatever the
\* response body contains.
C9_Case ==
    /\ LatestIs("get_user_repositories")
    /\ Answered
    /\ client_call.resp.status # 200

C9_NonSuccessYieldsEmpty ==
    C9_Case => client_call.out = Returned(<<>>)

\* a non-200 answer without a JSON body ends the call with an error
C9_NonJsonBodyRaises ==
    /\ C9_Case
    /\ client_call.resp = Answer(500, NotJson)
    /\ client_call.out = RaisedBy("JSONDecodeError")

\* the part of C9 the code keeps: a non-200 answer whose body is a JSON
\* array or object yields the empty sequence
C9_NonSuccessJsonYieldsEmpty ==
    (C9_Case /\ client_call.resp.body.json \in {"array", "object"})
        => client_call.out = Returned(<<>>)

(***************************************************************************)
(* Claims about gui.GitRepo, checked under SpecLocal.                      *)
(***************************************************************************)
StatusReturned == local_call.op = "get_status" /\ local_call.out.kind = "returned"
Unstaged == local_call.out.value.unstaged
SeqElems(seq) == {seq[i] : i \in 1..Len(seq)}
DiffPaths == {local_call.diffs[i].a_path : i \in 1..Len(local_call.diffs)}
NoPathTwice(infos) ==
    \A i, j \in 1..Len(infos) : infos[i].file_name = infos[j].file_name => i = j

\* C10: in every get_status result the unstaged list is the entries of the
\* index-against-working-tree diff unioned with the untracked files: every
\* untracked path is in it, and no path is in it twice; an untracked path
\* that a diff entry lists already is not added again.
C10_UnstagedIsUnionWithoutRepeats ==
    StatusReturned =>
        /\ FileNames(Unstaged) = DiffPaths \cup SeqElems(local_call.untracked)
        /\ SeqElems(local_call.untracked) \subseteq FileNames(Unstaged)
        /\ NoPathTwice(Unstaged)

\* what the code keeps of C10: the list is the diff entries followed by the
\* untracked paths no diff entry names, each of them once
C10_UntrackedAddedOnce ==
    StatusReturned =>
        LET unlisted(p) == p \notin DiffPaths
            added == SelectSeq(local_call.untracked, unlisted)
        IN  /\ FileNames(Unstaged) = DiffPaths \cup SeqElems(local_call.untracked)
            /\ Unstaged = FileInfos(local_call.diffs)
                              \o [i \in 1..Len(added) |-> FileInfo(added[i], "A")]

\* a path is twice in the unstaged list of a result
C10_PathListedTwice == StatusReturned /\ ~NoPathTwice(Unstaged)

\* an untracked path that a diff entry lists already is in the result once
C10_GuardTaken ==
    /\ StatusReturned
    /\ DiffPaths \cap SeqElems(local_call.untracked) # {}
    /\ NoPathTwice(Unstaged)

\* the change types git gives the entries of a diff: added, modified,
\* deleted, renamed
DiffKinds == {"A", "M", "D", "R"}

\* the repository of the example: a.txt is new and untracked, b.txt is
\* modified and not staged, and nothing is staged
C11_Case ==
    /\ StatusReturned
    /\ local_call.untracked = <<"a.txt">>
    /\ Len(local_call.diffs) = 1
    /\ local_call.diffs[1].a_path = "b.txt"
    /\ local_call.diffs[1].change_type = "M"
    /\ staged_diffs = <<>>

\* C11: get_status reports every untracked file with a change kind of its
\* own, none of added, modified, deleted, renamed; and for the repository
\* with the untracked a.txt and the modified b.txt it returns no staged
\* entry and the unstaged entries a.txt (untracked), b.txt (modified), in
\* that order.
C11_UntrackedKindAndOrder ==
    StatusReturned =>
        /\ \A i \in 1..Len(Unstaged) :
              (Unstaged[i].file_name \in SeqElems(local_call.untracked) \ DiffPaths)
                  => Unstaged[i].change_type \notin DiffKinds
        /\ C11_Case =>
              /\ local_call.out.value.staged = <<>>
              /\ Len(Unstaged) = 2
              /\ Unstaged[1].file_name = "a.txt"
              /\ Unstaged[1].change_type \notin DiffKinds
              /\ Unstaged[2] = FileInfo("b.txt", "M")

\* what get_status returns for that repository: the modified b.txt first,
\* then a.txt with the change type of an added file
C11_UntrackedAsAddedAfterDiffs ==
    C11_Case =>
        local_call.out.value = Status(<<>>, <<FileInfo("b.txt", "M"), FileInfo("a.txt", "A")>>)

C11_ExampleStatus ==
    /\ C11_Case
    /\ index = [p \in Paths |-> HeadEntry(head, p)]
    /\ Unstaged = <<FileInfo("b.txt", "M"), FileInfo("a.txt", "A")>>

(***************************************************************************)
(* Claims about combine_all_blobs, checked under SpecLocal.                *)
(***************************************************************************)
CombineReturned == local_call.op = "combine_all_blobs" /\ local_call.out.kind = "returned"
Combined == local_call.out.value

\* the entry of the combined diffs for a path, if there is one
HasEntry(p) == \E i \in 1..Len(Combined) : Combined[i].key = p
EntryOf(p) == Combined[CHOOSE i \in 1..Len(Combined) : Combined[i].key = p].value

\* as the latest get_status found them: a file new in the index (no blob in
\* HEAD), a file gone from the index, and neither of them part of a rename
NoRenameCaptured == RenamePairs(captured.index, head) = {}
StagedNew(p) ==
    /\ head[p] = NoBlob /\ Tracked(captured.index, p) /\ ~captured.index[p].unmerged
StagedDeletion(p) == head[p] # NoBlob /\ ~Tracked(captured.index, p)

\* C12: combine_all_blobs, run after a get_status that captured the staged
\* diffs, gives a newly added staged file the entry old = "" and new = the
\* staged content, and a staged deletion the entry old = the committed
\* content and new = "": old is the HEAD side and new the index side.
C12_BeforeIsHeadAfterIsIndex ==
    (CombineReturned /\ captured.taken /\ NoRenameCaptured) =>
        \A p \in Paths :
            /\ StagedNew(p) =>
                  /\ HasEntry(p)
                  /\ EntryOf(p) = [old |-> "", new |-> BlobText(captured.index[p].blob)]
            /\ StagedDeletion(p) =>
                  /\ HasEntry(p)
                  /\ EntryOf(p) = [old |-> BlobText(head[p]), new |-> ""]

\* what the code gives: old is the index side and new the HEAD side
C12_OldIsIndexNewIsHead ==
    (CombineReturned /\ captured.taken /\ NoRenameCaptured) =>
        \A p \in Paths :
            /\ StagedNew(p) =>
                  /\ HasEntry(p)
                  /\ EntryOf(p) = [old |-> BlobText(captured.index[p].blob), new |-> ""]
            /\ StagedDeletion(p) =>
                  /\ HasEntry(p)
                  /\ EntryOf(p) = [old |-> "", new |-> BlobText(head[p])]

\* a newly added staged a.txt comes out with its content as old and "" as new
C12_AddedFileSidesSwapped ==
    /\ CombineReturned
    /\ captured.taken
    /\ NoRenameCaptured
    /\ StagedNew("a.txt")
    /\ HasEntry("a.txt")
    /\ EntryOf("a.txt") = [old |-> "one", new |-> ""]

\* C13: get_status is idempotent on an unchanged repository: a get_status
\* that follows one with no stage, no unstage and no change of the working
\* tree or the index between them or during them returns the same staged
\* and unstaged lists, in the same order, and leaves the same staged diffs.
C13_StatusIdempotent ==
    [][(/\ unchanged_since.seen # "no"
        /\ local_call'.op = "get_status"
        /\ local_call'.out.kind = "returned"
        /\ index' = index
        /\ worktree' = worktree)
       => (/\ local_call'.out = unchanged_since.out
           /\ staged_diffs' = unchanged_since.kept)]_vars

C13_Witness ==
    /\ unchanged_since.seen = "again"
    /\ StatusReturned
    /\ local_call.out = unchanged_since.out
    /\ staged_diffs # <<>>
    /\ Unstaged # <<>>

CapturedStagedDiffs ==
    IF captured.taken THEN IndexDiffHead(captured.index, head) ELSE <<>>

\* C15: after any sequence of get_status, stage_files, unstage_files and
\* unstage_all_files calls, combine_all_blobs returns one entry for each
\* staged diff that the most recent get_status that returned captured, with
\* the blobs of that diff, even if the index has changed since; it reads
\* nothing from the index, and before any get_status it returns no entry.
C15_CombinesCapturedDiffs ==
    CombineReturned =>
        /\ Len(Combined) = Len(CapturedStagedDiffs)
        /\ \A i \in 1..Len(Combined) :
              /\ Combined[i].key = CapturedStagedDiffs[i].b_path
              /\ Combined[i].value.old = DecodeSide(CapturedStagedDiffs[i].a_blob)
              /\ Combined[i].value.new = DecodeSide(CapturedStagedDiffs[i].b_blob)

C15_Witness ==
    /\ CombineReturned
    /\ captured.taken
    /\ Len(Combined) = 1
    /\ Len(IndexDiffHead(index, head)) = 2
    /\ \A i \in 1..2 : IndexDiffHead(index, head)[i].b_path # Combined[1].key
                       \/ DecodeSide(IndexDiffHead(index, head)[i].a_blob) # Combined[1].value.old

(***************************************************************************)
(* Claims about the accumulator and the failures of get_repo_commits,      *)
(* checked under Spec.                                                     *)
(***************************************************************************)
\* the records of the pages that the requests 1..n of the call fetched: the
\* pages answered 200 with a commit array
RECURSIVE FetchedRecords(_)
FetchedRecords(n) ==
    IF n = 0 THEN <<>>
    ELSE FetchedRecords(n - 1)
         \o (IF ArrayAt(n)
             THEN RecordsIn(PageEntries(remote, http_log[n].page, http_log[n].per_page))
             ELSE <<>>)

Count(seq, r) == Cardinality({i \in 1..Len(seq) : seq[i] = r})

ListReturned == FetchDone /\ result.kind = "returned" /\ result.value # None

\* C18: the list a get_repo_commits call returns holds only records of the
\* pages that this call fetched, each as often as this call fetched it, also
\* when an earlier call ran on the same GithubCommit.
C18_FetchOwnsAccumulator ==
    ListReturned =>
        \A i \in 1..Len(result.value) :
            Count(result.value, result.value[i])
                <= Count(FetchedRecords(Len(http_log)), result.value[i])

\* what the code keeps of C18: a call on a GithubCommit that no call used
\* before returns the records of the pages it fetched, in the order fetched
C18_FirstFetchOwnsAccumulator ==
    (ListReturned /\ ~reused) => result.value = FetchedRecords(Len(http_log))

\* a call on a used GithubCommit fetches one page that has no record and
\* returns a record all the same
C18_SecondFetchReturnsFirst ==
    /\ ListReturned
    /\ reused
    /\ Len(http_log) = 1
    /\ ArrayAt(1)
    /\ FetchedRecords(1) = <<>>
    /\ result.value # <<>>

\* the request i of the call failed at the transport level
FailedAt(i) == http_log[i].resp = TransportError

\* C19: when the request for a page, the first or a later one, fails at the
\* transport level, get_repo_commits raises that error to its caller, asks
\* for no further page and returns no list, whatever it has accumulated.
C19_TransportErrorAborts ==
    \A i \in 1..Len(http_log) :
        FailedAt(i) =>
            /\ i = Len(http_log)
            /\ fetch_pc = "idle"
            /\ result = RaisedBy("ConnectionError")

C19_Witness ==
    /\ FetchDone
    /\ ~reused
    /\ Len(http_log) = 2
    /\ ArrayAt(1)
    /\ FailedAt(2)
    /\ server_link = Header(<<Link(W_next, PageUrl(2)), Link(W_last, PageUrl(3))>>)
    /\ commit_list # None
    /\ Len(commit_list) > 0
    /\ result.kind = "raised"

(***************************************************************************)
(* Claims about the local-repository page, checked under SpecGui.          *)
(***************************************************************************)
\* the workers in flight that run one of the tasks
InFlight(tasks) == {i \in 1..Len(pool) : pool[i].task \in tasks}

StagingTasks == {"stage_files", "unstage_files", "unstage_all_files"}
LocalTasks == StagingTasks \cup {"get_status", "_task_generate_from_staged"}

\* C16: combine_all_blobs, run by _task_generate_from_staged, never runs on
\* staged diffs captured before the latest stage or unstage call that
\* returned: a get_status returns between such a call and the next build.
C16_BuildAfterRefresh == latest_build # "stale"

\* a build ran on diffs captured before the latest stage or unstage, and its
\* entries are not those of the index
C16_BuildOnStaleSnapshot ==
    /\ close_state = "open"
    /\ latest_build = "stale"
    /\ CombineReturned
    /\ staged_since_status
    /\ Combined # CombineFrom(IndexDiffHead(index, head), 1, <<>>)

\* C17: at most one worker that runs get_status, stage_files, unstage_files,
\* unstage_all_files or combine_all_blobs on the repository handle is in
\* flight at any time, and no stage or unstage is in flight together with a
\* build of the diffs.
C17_OneLocalWorkerInFlight ==
    /\ Cardinality(InFlight(LocalTasks)) <= 1
    /\ InFlight(StagingTasks) = {} \/ InFlight({"_task_generate_from_staged"}) = {}

\* a stage worker and a build worker are in flight together
C17_StageOverlapsBuild ==
    /\ close_state = "open"
    /\ InFlight({"stage_files"}) # {}
    /\ InFlight({"_task_generate_from_staged"}) # {}

\* C20: the close event is accepted only once every worker started through
\* run_task_in_thread has finished: no worker is in flight when the close
\* is accepted.
C20_CloseWaitsForWorkers == close_state = "accepted" => InFlight(LocalTasks) = {}

C20_Witness ==
    /\ close_state = "accepted"
    /\ waited_for = MaxWorkers
    /\ pool = <<>>
    /\ local_call.op = "stage_files"

(***************************************************************************)
(* Claims about ai_analyzer, checked under SpecAi.                         *)
(***************************************************************************)
\* the latest builder call went as far as the generation endpoint
Asked == ai_call.requests = 1

\* `stripped` is `text` without its white space at both ends
IsStripOf(stripped, text) ==
    /\ \A i \in 1..Len(stripped) : i \in {1, Len(stripped)} => ~IsSpace(stripped[i])
    /\ \E lead \in 0..Len(text) :
          /\ lead + Len(stripped) <= Len(text)
          /\ stripped = SubSeq(text, lead + 1, lead + Len(stripped))
          /\ \A i \in 1..Len(text) :
                (i <= lead \/ i > lead + Len(stripped)) => IsSpace(text[i])

\* C21: generate_ai_response never raises: for a response with a text it
\* returns that text stripped, and for every failure of the call (an error
\* of the API, no connection, a response without a text) it returns the
\* fixed error text.
C21_AiResponseNeverRaises ==
    Asked =>
        /\ ai_call.out.kind = "returned"
        /\ ai_call.answer.kind = "text" => IsStripOf(ai_call.out.value, ai_call.answer.text)
        /\ ai_call.answer.kind # "text" => ai_call.out.value = AiErrorText

C21_Witness ==
    /\ Asked
    /\ ai_call.op = "commit_best_practice"
    /\ ai_call.answer = ConnectionErrorAnswer
    /\ ai_call.out = Returned(AiErrorText)

\* the inputs a builder requires, as its call had them
RequiredInputs == {ai_call.args[i] : i \in 1..Len(ai_call.args)}
BuilderCalled == ai_call.op # "none"

\* an empty text, an empty list
IsEmptyInput(x) == Len(x) = 0

\* C26: every request builder raises a validation error when one of its
\* required inputs is empty, before any call of the generation endpoint;
\* write_commit_base_on_diff requires old_code and new_code both.
C26_EmptyInputRejected ==
    (BuilderCalled /\ \E x \in RequiredInputs : IsEmptyInput(x)) =>
        /\ ai_call.out = RaisedBy("ValueError")
        /\ ai_call.requests = 0

\* what the code keeps of C26: the builders of one input reject an empty
\* one, and write_commit_base_on_diff rejects two empty inputs
C26_AllInputsEmptyRejected ==
    (BuilderCalled /\ \A x \in RequiredInputs : IsEmptyInput(x)) =>
        /\ ai_call.out = RaisedBy("ValueError")
        /\ ai_call.requests = 0

\* write_commit_base_on_diff with no old code sends a prompt
C26_DiffWithoutOldCodeSent ==
    /\ ai_call.op = "write_commit_base_on_diff"
    /\ ai_call.args = <<(<<>>), (<<"a">>)>>
    /\ ai_call.requests = 1
    /\ ai_call.prompt = Prompt("diff", <<(<<>>), (<<"a">>)>>)
    /\ ai_call.out.kind = "returned"

(***************************************************************************)
(* Further claims about get_repo_commits, checked under Spec.              *)
(***************************************************************************)
\* what _parse_link_header makes of the header the pages come with
ServedRange == ParseLinkHeader(RenderHeader(server_link))

\* 1 + max(0, last_page - next_page + 1), and 1 without a page range
RequestBudget ==
    IF ServedRange.kind = "range"
    THEN 1 + (IF ServedRange.last_page - ServedRange.next_page + 1 > 0
              THEN ServedRange.last_page - ServedRange.next_page + 1 ELSE 0)
    ELSE 1

\* C22: whatever Link header page 1 comes with, a misbehaving one included
\* (next page 1, below 1, or above last), a call makes at most
\* 1 + max(0, last_page - next_page + 1) requests, and no fetch after the
\* first parses a Link header or starts another run over pages.
C22_FetchBounded ==
    /\ Len(http_log) <= RequestBudget
    /\ parses <= 1
    /\ Len(stack) <= 1

\* what the code keeps of C22: the same for a header whose next page is 2
\* or more
C22_BoundedWhenNextAboveOne ==
    (ServedRange.kind = "range" => ServedRange.next_page >= 2) => C22_FetchBounded

\* next page 1: the fetch of page 1 inside the loop parses the header again
\* and starts a run of its own, and the call ends over its budget
C22_LoopRestarts ==
    /\ FetchDone
    /\ ServedRange.kind = "range"
    /\ ServedRange.next_page = 1
    /\ parses >= 2
    /\ Len(http_log) > RequestBudget

\* self.commit_list read as a list: None holds no record
Accumulated == IF commit_list = None THEN <<>> ELSE commit_list

\* the entries of the page that request i of the call fetched
EntriesAt(i) == PageEntries(remote, http_log[i].page, http_log[i].per_page)

\* C23: every page answered 200 with a commit array appends one record for
\* each of its entries that has a commit sub-object, in the entries' order;
\* an entry without one appends nothing, raises nothing, and the loop goes on
\* with the next entry.  On a GithubCommit not used before, the accumulator
\* is then the records of the pages fetched so far.
C23_RecordPerCommitEntry ==
    ~reused => Accumulated = FetchedRecords(Len(http_log))

\* what the code keeps of C23: the same when every commit sub-object has an
\* author, entries without a commit sub-object included
C23_RecordPerAuthoredEntry ==
    (~reused /\ AuthorsPresent) => Accumulated = FetchedRecords(Len(http_log))

\* an entry without a commit sub-object was passed over, and the entries
\* after it gave their records
C23_SkippedEntry ==
    /\ FetchDone
    /\ ~reused
    /\ AuthorsPresent
    /\ Len(http_log) = 1
    /\ ArrayAt(1)
    /\ Len(EntriesAt(1)) = 2
    /\ ~EntriesAt(1)[1].commit
    /\ EntriesAt(1)[2].commit
    /\ result = Returned(<<CommitRecord(EntriesAt(1)[2])>>)

\* a fetched page has a commit sub-object without an author: the loop ends
\* with an AttributeError and the page's records are not all appended
C23_CommitWithoutAuthor ==
    /\ FetchDone
    /\ ~reused
    /\ ArrayAt(Len(http_log))
    /\ \E j \in 1..Len(EntriesAt(Len(http_log))) :
          /\ EntriesAt(Len(http_log))[j].commit
          /\ ~EntriesAt(Len(http_log))[j].author
    /\ result = RaisedBy("AttributeError")
    /\ Len(Accumulated) < Len(FetchedRecords(Len(http_log)))

(***************************************************************************)
(* A further claim about _parse_link_header, checked under SpecParse.      *)
(***************************************************************************)
\* C24: every page range that _parse_link_header returns, for whatever
\* header, has next_page >= 1 and last_page >= next_page.
C24_RangeWellFormed ==
    page_info.kind = "range" =>
        /\ page_info.next_page >= 1
        /\ page_info.last_page >= page_info.next_page

\* what the code keeps of C24: the range is the two page numbers as the
\* header gives them
C24_RangeAsWritten ==
    page_info.kind = "range" =>
        \E i \in LinksOf(link_desc, W_next) : \E j \in LinksOf(link_desc, W_last) :
            page_info = PageRange(PageOf(link_desc.links[i].url),
                                  PageOf(link_desc.links[j].url))

\* a header whose next page is above its last page is returned as it is
C24_NextAboveLast ==
    /\ page_info.kind = "range"
    /\ page_info.next_page > page_info.last_page
    /\ link_header = RenderHeader(link_desc)

\* a header whose next page is 0 is returned as it is
C24_NextBelowOne ==
    /\ page_info.kind = "range"
    /\ page_info.next_page < 1

\* request i of the call was answered, with a status other than 200
NonOkAt(i) == http_log[i].resp # TransportError /\ http_log[i].resp.status # 200

\* the step is a request that was answered with a status other than 200
NonOkStep == Len(http_log') = Len(http_log) + 1 /\ NonOkAt(Len(http_log))'

\* C29: a page answered with a status other than 200 raises nothing, appends
\* no record and parses no Link header.  As the call's first page it ends
\* the call without a list and without a further request; as a later page
\* it lets the loop go on with the pages that remain, and the call returns
\* the records of the pages answered 200.
C29_NonOkPageSkipped ==
    \A i \in 1..Len(http_log) :
        NonOkAt(i) =>
            /\ i = Len(http_log) => result.kind # "raised"
            /\ i = 1 => /\ fetch_pc = "idle"
                        /\ result = Returned(None)
                        /\ Len(http_log) = 1
            /\ (i > 1 /\ FetchDone /\ parses <= 1) =>
                   IF http_log[i].page < ServedRange.last_page
                   THEN /\ i < Len(http_log)
                        /\ http_log[i + 1].page = http_log[i].page + 1
                   ELSE i = Len(http_log)
            /\ (i > 1 /\ ListReturned) => result.value = FetchedRecords(Len(http_log))

\* what the code keeps of C29: all of it on a GithubCommit not used before
C29_NonOkPageSkippedOnFirstCall ==
    ~reused => C29_NonOkPageSkipped

\* and on every GithubCommit: the request leaves the accumulator and the
\* parsed header alone and ends in no error
C29_NonOkStepKeepsState ==
    [][NonOkStep => /\ commit_list' = commit_list
                    /\ next_pages' = next_pages
                    /\ parses' = parses
                    /\ result'.kind # "raised"]_vars

\* page 2 of 3 is answered 409 on a fresh GithubCommit: pages 1 and 3 are
\* returned
C29_LaterPageSkipped ==
    /\ FetchDone
    /\ ~reused
    /\ Len(http_log) = 3
    /\ ArrayAt(1) /\ NonOkAt(2) /\ ArrayAt(3)
    /\ http_log[3].page = 3
    /\ result = Returned(PageRecords(1) \o PageRecords(3))
    /\ PageRecords(1) # <<>> /\ PageRecords(3) # <<>>

\* the same on a used GithubCommit: the list returned holds more than the
\* records of the pages answered 200
C29_EarlierRecordsWithSkippedPage ==
    /\ ListReturned
    /\ reused
    /\ Len(http_log) > 1
    /\ \E i \in 2..Len(http_log) : NonOkAt(i)
    /\ Len(result.value) > Len(FetchedRecords(Len(http_log)))

(***************************************************************************)
(* A claim about _decode_blob and combine_all_blobs, checked under         *)
(* SpecBlobs.                                                              *)
(***************************************************************************)
\* git takes a file for binary when it holds a NUL byte
Binary(blob) == blob # NoBlob /\ \E i \in 1..Len(BlobBytes(blob)) : BlobBytes(blob)[i] = 0

Undecodable(blob) == blob # NoBlob /\ ~Utf8Decodable(BlobBytes(blob))

KeyedDiffs == {i \in 1..Len(staged_diffs) : DiffKey(staged_diffs[i]) # ""}

CombineDone == local_call.op = "combine_all_blobs"

\* the blobs whose side must read "": absent or no UTF-8, and on demand the
\* binary ones
Sentinel(blob, binary_too) ==
    blob = NoBlob \/ Undecodable(blob) \/ (binary_too /\ Binary(blob))

\* the returned dict has one entry for each captured diff that has a path,
\* with "" on the sides that must read so
EntriesWithSentinel(binary_too) ==
    /\ local_call.out.kind = "returned"
    /\ Len(local_call.out.value) = Cardinality(KeyedDiffs)
    /\ \A i \in KeyedDiffs :
          \E j \in 1..Len(local_call.out.value) :
              /\ local_call.out.value[j].key = DiffKey(staged_diffs[i])
              /\ Sentinel(staged_diffs[i].a_blob, binary_too) => local_call.out.value[j].value.old = ""
              /\ Sentinel(staged_diffs[i].b_blob, binary_too) => local_call.out.value[j].value.new = ""

\* C25: combine_all_blobs raises nothing and returns one entry for every
\* captured diff that has a path; a side whose blob is absent, binary or
\* not decodable as UTF-8 reads "" in it.
C25_UnreadableSideIsEmpty ==
    CombineDone => EntriesWithSentinel(TRUE)

\* what the code keeps of C25: the same for the sides that are absent or no
\* UTF-8
C25_UndecodableSideIsEmpty ==
    CombineDone => EntriesWithSentinel(FALSE)

\* a staged PNG image next to a staged deletion: both entries are there, the
\* image reads ""
C25_ImageReadsEmpty ==
    /\ CombineDone
    /\ Len(staged_diffs) = 2
    /\ staged_diffs[1].a_blob = "png" /\ staged_diffs[1].b_blob = NoBlob
    /\ staged_diffs[2].a_blob = NoBlob /\ staged_diffs[2].b_blob = "latin1"
    /\ local_call.out = Returned(<<[key |-> "a.txt", value |-> [old |-> "", new |-> ""]],
                                   [key |-> "b.txt", value |-> [old |-> "", new |-> ""]]>>)

\* a staged binary file whose bytes happen to be UTF-8 is decoded
C25_BinaryDecoded ==
    /\ CombineDone
    /\ local_call.out.kind = "returned"
    /\ \E i \in KeyedDiffs : \E j \in 1..Len(local_call.out.value) :
          /\ local_call.out.value[j].key = DiffKey(staged_diffs[i])
          /\ Binary(staged_diffs[i].a_blob)
          /\ local_call.out.value[j].value.old # ""

(***************************************************************************)
(* A claim about the staged list of the local-repository page, checked     *)
(* under SpecGui.                                                          *)
(***************************************************************************)
\* the items of the staged list that name a file
StagedItems ==
    LET names_file(item_text) == item_text # <<NoStagedText>>
    IN  SelectSeq(staged_files_list, names_file)

\* the paths the staged list shows, from the top
DisplayedStagedPaths == [i \in 1..Len(StagedItems) |-> LastField(StagedItems[i])]

\* the paths of the diffs that local_git_repo.staged_diffs holds
SnapshotPaths == [i \in 1..Len(staged_diffs) |-> staged_diffs[i].a_path]

\* the window is open, no worker is in the pool and no signal of a worker
\* waits for the GUI thread
NoLocalTask == close_state = "open" /\ pool = <<>> /\ events = <<>>

\* C30: whenever no task of the local-repository page is in flight, the
\* staged list shows exactly the paths of the diffs in
\* local_git_repo.staged_diffs, however refresh, stage and unstage tasks
\* interleave.
C30_StagedListShowsSnapshot ==
    NoLocalTask => DisplayedStagedPaths = SnapshotPaths

\* every task is done, staged_diffs holds the diff of b.txt and the list
\* shows no staged file: the result of an earlier get_status came in last
C30_ListBehindSnapshot ==
    /\ NoLocalTask
    /\ SnapshotPaths = <<"b.txt">>
    /\ staged_files_list = <<(<<NoStagedText>>)>>
    /\ IndexDiffHead(index, head) = staged_diffs

(***************************************************************************)
(* A claim about Worker.run, checked under SpecWorker.                     *)
(***************************************************************************)
\* how often a signal is among those a run has emitted
Emissions(run, signal) == Cardinality({i \in 1..Len(run.emitted) : run.emitted[i] = signal})

\* C28: a run of a Worker emits exactly one of result and error, result when
\* the task function returned and error when it raised, and after it
\* finished, once: never both signals, never none, never finished first.
C28_OneSignalThenFinished ==
    \A thread \in 1..MaxWorkers :
        /\ Emissions(runs[thread], "result") + Emissions(runs[thread], "error") <= 1
        /\ Emissions(runs[thread], "finished") <= 1
        /\ Emissions(runs[thread], "result") = 1 => runs[thread].out.kind = "returned"
        /\ Emissions(runs[thread], "error") = 1 => runs[thread].out.kind = "raised"
        /\ Emissions(runs[thread], "finished") = 1 =>
              /\ Len(runs[thread].emitted) = 2
              /\ runs[thread].emitted[2] = "finished"
        /\ runs[thread].pc = "finished" => Emissions(runs[thread], "finished") = 1

\* one worker's task returned and another's raised, and both runs are over
C28_Witness ==
    /\ runs[1] = Run("finished", Returned(None), <<"result", "finished">>)
    /\ runs[2] = Run("finished", RaisedBy("ValueError"), <<"error", "finished">>)

(***************************************************************************)
(* A claim about the commit list of the GitHub page, checked under         *)
(* SpecCommits.                                                            *)
(***************************************************************************)
\* no worker loads commits and no signal of a worker waits for the GUI thread
NoLoadTask ==
    /\ close_state = "open"
    /\ \A i \in 1..Len(pool) : pool[i].task # "_task_load_commits"
    /\ events = <<>>

\* a repository is the current item of the box
RepoChosen == gui_token # None /\ repo_combo.current > 0

\* the records in the commit list
ShownCommits == IF commit_list_widget = <<NoCommitsText>> THEN <<>> ELSE commit_list_widget

\* C27: whenever no load of commits is in flight, the commit list holds the
\* history of the repository chosen in the box, and nothing when none is
\* chosen or after a disconnect: the result of a load started for a
\* repository chosen earlier never stays in the list, in whatever order the
\* loads finish.  A load that failed leaves the list without records.
C27_ListOfChosenRepo ==
    NoLoadTask =>
        IF RepoChosen
        THEN \/ ShownCommits = <<>>
             \/ ShownCommits = History(Last(Split(CurrentText(repo_combo), "/")))
        ELSE commit_list_widget = <<>>

\* o/b is chosen, every load is done, and the list holds the history of o/a
C27_EarlierRepoShown ==
    /\ NoLoadTask
    /\ pool = <<>>
    /\ RepoChosen
    /\ CurrentText(repo_combo) = <<"o", "/", "b">>
    /\ commit_list_widget = History(<<"a">>)

\* after a disconnect the list holds the history of o/a
C27_ShownAfterDisconnect ==
    /\ NoLoadTask
    /\ pool = <<>>
    /\ gui_token = None
    /\ commit_list_widget = History(<<"a">>)

====
